---- MODULE Spec2Model ----
(***************************************************************************)
(* Nested containment list (nclist): the builder of build.hpp and the      *)
(* query family (overlaps_any, overlaps_start, overlaps_end,               *)
(* overlaps_equal, overlaps_within, overlaps_extend, nearest).             *)
(*                                                                         *)
(* C++ vectors are modelled as sequences; every index kept in the model is *)
(* the 0-based C++ index, and At(v, i) reads v[i].                         *)
(***************************************************************************)
EXTENDS Integers, Sequences, FiniteSets

(* ------------------------------ bounds --------------------------------- *)
\* largest number of subject intervals handed to build()
MaxN == 3
\* positions are drawn from 0..MaxPos
MaxPos == 3
\* max_gap is drawn from 0..MaxGap (and "unset" where it is optional)
MaxGap == 2
\* min_overlap is drawn from 0..MaxMinOverlap
MaxMinOverlap == 2
\* the specifications that run every query kind on one index hand at most
\* MaxFewN intervals to build(), with positions drawn from 0..MaxFewPos
MaxFewN == 2
MaxFewPos == 1

\* positions of the narrow types are written in Width binary digits
Width == 2

(* ----------------------- the position type ----------------------------- *)
\* the template argument Position_ of the index and of the call: whether
\* std::is_unsigned holds of it, its std::numeric_limits max(), and what the
\* build makes of a signed result outside its range (undefined behaviour):
\* wraps = TRUE reduces it modulo 2^w, wraps = FALSE carries it on at full
\* width, as a build that reasons on the mathematical value does
VARIABLE Position_

PositionType(is_unsigned, max, wraps) == [is_unsigned |-> is_unsigned, max |-> max, wraps |-> wraps]

\* Position_ = int, the type of the tests
IntType == PositionType(FALSE, 2147483647, TRUE)

\* an unsigned type of Width binary digits, standing for unsigned int
NarrowUnsigned == PositionType(TRUE, 2^Width - 1, TRUE)

\* the signed types of Width binary digits, standing for int
NarrowSigned == {PositionType(FALSE, 2^(Width - 1) - 1, wraps) : wraps \in BOOLEAN}

\* std::numeric_limits<Position_>::max()
maxed == Position_.max

\* std::numeric_limits<Position_>::lowest()
lowest == IF Position_.is_unsigned THEN 0 ELSE 0 - Position_.max - 1

\* whether x is a value of Position_
representable(x) == lowest <= x /\ x <= maxed

\* the Position_ that an arithmetic operation with mathematical result x yields
converted(x) ==
    IF representable(x) THEN x
    ELSE IF Position_.is_unsigned THEN x % (maxed + 1)
    ELSE IF Position_.wraps THEN ((x - lowest) % (2 * (maxed + 1))) + lowest
    ELSE x

\* a - b on two Position_ values
minus(a, b) == converted(a - b)

\* a + b on two Position_ values
plus(a, b) == converted(a + b)

\* an unset std::optional<Position_>
None == -1

(* --------------------------- vector helpers ---------------------------- *)
At(v, i) == v[i + 1]

Put(v, i, x) == [v EXCEPT ![i + 1] = x]

PopBack(v) == SubSeq(v, 1, Len(v) - 1)

Back(v) == v[Len(v)]

\* v[from, to) as a sequence
Slice(v, from, to) == SubSeq(v, from + 1, to)

\* v[from, to) read backwards, as reverse iterators read it
RevSlice(v, from, to) == [k \in 1..(to - from) |-> v[to - k + 1]]

ToSet(v) == {v[k] : k \in 1..Len(v)}

\* mutant: the vector keeps what an earlier call left in it
clear_nothing(v) == v

\* std::vector::clear()
clear(v) == << >>

Min2(a, b) == IF a < b THEN a ELSE b

Max2(a, b) == IF a > b THEN a ELSE b

(* ------------------------------- build --------------------------------- *)
\* the array-like objects handed to build(): a pointer to an array, and the
\* Incrementer of tests/src/build.cpp, whose operator[] returns my_ptr[i] + 1
Pointer(array) == [class |-> "pointer", my_ptr |-> array]

Incrementer(ptr) == [class |-> "Incrementer", my_ptr |-> ptr]

\* array[i], for the position of interval i
ArrayElement(array, i) ==
    IF array.class = "Incrementer" THEN At(array.my_ptr, i) + 1 ELSE At(array.my_ptr, i)

\* Nclist::Node
Node(id) ==
    [id |-> id, children_start |-> 0, children_end |-> 0,
     duplicates_start |-> 0, duplicates_end |-> 0]

\* mutant: intervals with the same start and end are ordered by their ids
cmp_ties_by_id(starts, ends, l, r) ==
    IF ArrayElement(starts, l) = ArrayElement(starts, r)
    THEN IF ArrayElement(ends, l) = ArrayElement(ends, r)
         THEN l < r
         ELSE ArrayElement(ends, l) > ArrayElement(ends, r)
    ELSE ArrayElement(starts, l) < ArrayElement(starts, r)

\* mutant: ties on the start are broken by increasing end
cmp_increasing_end(starts, ends, l, r) ==
    IF ArrayElement(starts, l) = ArrayElement(starts, r)
    THEN ArrayElement(ends, l) < ArrayElement(ends, r)
    ELSE ArrayElement(starts, l) < ArrayElement(starts, r)

\* the comparator of build_internal: increasing start, then DECREASING end
cmp(starts, ends, l, r) ==
    IF ArrayElement(starts, l) = ArrayElement(starts, r)
    THEN ArrayElement(ends, l) > ArrayElement(ends, r)
    ELSE ArrayElement(starts, l) < ArrayElement(starts, r)

\* std::is_sorted(first, last, cmp): no element is cmp-less than its predecessor
is_sorted(v, starts, ends) ==
    \A k \in 1..(Len(v) - 1) : ~cmp(starts, ends, v[k + 1], v[k])

\* every sequence that holds each element of S once
RECURSIVE Arrangements(_)
Arrangements(S) ==
    IF S = {}
    THEN {<< >>}
    ELSE UNION {{<<x>> \o p : p \in Arrangements(S \ {x})} : x \in S}

\* every arrangement of the entries of v
Orderings(v) == {[k \in 1..Len(v) |-> v[f[k]]] : f \in Arrangements(1..Len(v))}

\* mutant: the sort is left out and the pass sees of_interest as it was given
sorted_of_interest_as_given(of_interest, starts, ends) == {of_interest}

\* mutant: the intervals with start > end are left out of the index
sorted_of_interest_without_reversed(of_interest, starts, ends) ==
    LET kept == SelectSeq(of_interest,
                          LAMBDA i : ArrayElement(starts, i) <= ArrayElement(ends, i))
    IN {p \in Orderings(kept) : is_sorted(p, starts, ends)}

\* The orders in which the tree-building pass may see of_interest: the input
\* order when it is already sorted, otherwise any result of std::sort, which
\* does not fix the relative order of equivalent (equal start and end) entries.
sorted_of_interest(of_interest, starts, ends) ==
    IF is_sorted(of_interest, starts, ends)
    THEN {of_interest}
    ELSE {p \in Orderings(of_interest) : is_sorted(p, starts, ends)}

\* Level of the tree-building pass
Level(offset, end) ==
    [offset |-> offset, end |-> end, num_children |-> 0, num_duplicates |-> 0]

\* state of the tree-building pass before the first interval
build_init(num_intervals) ==
    [working_list |-> << >>,
     working_children |-> [k \in 1..num_intervals |-> 0],
     children_used |-> 0,
     children_tmp_boundary |-> num_intervals,
     working_duplicates |-> [k \in 1..num_intervals |-> 0],
     duplicates_used |-> 0,
     duplicates_tmp_boundary |-> num_intervals,
     levels |-> << Level(0, 0) >>,
     num_children_to_copy |-> 0,
     num_duplicates_to_copy |-> 0,
     last_id |-> 0]

\* the process_level lambda
process_level(b, curlevel) ==
    LET n0 == At(b.working_list, curlevel.offset)
        n1 == IF curlevel.num_children # 0
              THEN [n0 EXCEPT
                      !.children_start = b.children_used + b.num_children_to_copy,
                      !.children_end = b.children_used + b.num_children_to_copy
                                          + curlevel.num_children]
              ELSE n0
        n2 == IF curlevel.num_duplicates # 0
              THEN [n1 EXCEPT
                      !.duplicates_start = b.duplicates_used + b.num_duplicates_to_copy,
                      !.duplicates_end = b.duplicates_used + b.num_duplicates_to_copy
                                            + curlevel.num_duplicates]
              ELSE n1
    IN [b EXCEPT
          !.working_list = Put(b.working_list, curlevel.offset, n2),
          !.num_children_to_copy = b.num_children_to_copy + curlevel.num_children,
          !.num_duplicates_to_copy = b.num_duplicates_to_copy + curlevel.num_duplicates]

\* std::copy_n(v.begin() + from, count, v.begin() + to) with to <= from
copy_n(v, from, count, to) ==
    [k \in 1..Len(v) |->
        IF k - 1 >= to /\ k - 1 < to + count THEN v[from + (k - 1 - to) + 1] ELSE v[k]]

\* mutant: the boundaries move but the duplicates are not copied to the left
left_shift_indices_no_copy(b) ==
    LET b1 == IF b.num_children_to_copy # 0
              THEN [b EXCEPT
                      !.working_children =
                          IF b.children_used # b.children_tmp_boundary
                          THEN copy_n(b.working_children, b.children_tmp_boundary,
                                      b.num_children_to_copy, b.children_used)
                          ELSE b.working_children,
                      !.children_used = b.children_used + b.num_children_to_copy,
                      !.children_tmp_boundary =
                          b.children_tmp_boundary + b.num_children_to_copy]
              ELSE b
    IN IF b1.num_duplicates_to_copy # 0
       THEN [b1 EXCEPT
               !.duplicates_used = b1.duplicates_used + b1.num_duplicates_to_copy,
               !.duplicates_tmp_boundary =
                   b1.duplicates_tmp_boundary + b1.num_duplicates_to_copy]
       ELSE b1

\* mutant: the boundaries move but the children are not copied to the left
left_shift_indices_no_children_copy(b) ==
    LET b1 == IF b.num_children_to_copy # 0
              THEN [b EXCEPT
                      !.children_used = b.children_used + b.num_children_to_copy,
                      !.children_tmp_boundary =
                          b.children_tmp_boundary + b.num_children_to_copy]
              ELSE b
    IN IF b1.num_duplicates_to_copy # 0
       THEN [b1 EXCEPT
               !.working_duplicates =
                   IF b1.duplicates_used # b1.duplicates_tmp_boundary
                   THEN copy_n(b1.working_duplicates, b1.duplicates_tmp_boundary,
                               b1.num_duplicates_to_copy, b1.duplicates_used)
                   ELSE b1.working_duplicates,
               !.duplicates_used = b1.duplicates_used + b1.num_duplicates_to_copy,
               !.duplicates_tmp_boundary =
                   b1.duplicates_tmp_boundary + b1.num_duplicates_to_copy]
       ELSE b1

\* the left_shift_indices lambda
left_shift_indices(b) ==
    LET b1 == IF b.num_children_to_copy # 0
              THEN [b EXCEPT
                      !.working_children =
                          IF b.children_used # b.children_tmp_boundary
                          THEN copy_n(b.working_children, b.children_tmp_boundary,
                                      b.num_children_to_copy, b.children_used)
                          ELSE b.working_children,
                      !.children_used = b.children_used + b.num_children_to_copy,
                      !.children_tmp_boundary =
                          b.children_tmp_boundary + b.num_children_to_copy]
              ELSE b
    IN IF b1.num_duplicates_to_copy # 0
       THEN [b1 EXCEPT
               !.working_duplicates =
                   IF b1.duplicates_used # b1.duplicates_tmp_boundary
                   THEN copy_n(b1.working_duplicates, b1.duplicates_tmp_boundary,
                               b1.num_duplicates_to_copy, b1.duplicates_used)
                   ELSE b1.working_duplicates,
               !.duplicates_used = b1.duplicates_used + b1.num_duplicates_to_copy,
               !.duplicates_tmp_boundary =
                   b1.duplicates_tmp_boundary + b1.num_duplicates_to_copy]
       ELSE b1

\* mutant: one level is popped where the code loops (if for while)
pop_levels_once(b, curend) ==
    [process_level(b, Back(b.levels)) EXCEPT !.levels = PopBack(b.levels)]

\* do { process_level(levels.back()); levels.pop_back(); }
\* while (levels.size() > 1 && levels.back().end < curend);
RECURSIVE pop_levels(_, _)
pop_levels(b, curend) ==
    LET b1 == process_level(b, Back(b.levels))
        b2 == [b1 EXCEPT !.levels = PopBack(b1.levels)]
    IN IF Len(b2.levels) > 1 /\ Back(b2.levels).end < curend
       THEN pop_levels(b2, curend)
       ELSE b2

\* the part of the loop body that adds curid as a new node (build.hpp 227-234)
add_node(b, curid, curend) ==
    LET used == Len(b.working_list)
        lv == [Back(b.levels) EXCEPT !.num_children = @ + 1]
    IN [b EXCEPT
          !.working_list = Append(b.working_list, Node(curid)),
          !.children_tmp_boundary = b.children_tmp_boundary - 1,
          !.working_children = Put(b.working_children, b.children_tmp_boundary - 1, used),
          !.levels = Append(Put(b.levels, Len(b.levels) - 1, lv), Level(used, curend)),
          !.last_id = curid]

\* the part of the loop body that records curid as a duplicate (build.hpp 219-222)
add_duplicate(b, curid) ==
    LET lv == [Back(b.levels) EXCEPT !.num_duplicates = @ + 1]
    IN [b EXCEPT
          !.levels = Put(b.levels, Len(b.levels) - 1, lv),
          !.duplicates_tmp_boundary = b.duplicates_tmp_boundary - 1,
          !.working_duplicates =
              Put(b.working_duplicates, b.duplicates_tmp_boundary - 1, curid)]

\* mutant: an interval that ends where the open one ends is recorded as its
\* duplicate whatever its start is
build_step_same_end(b, curid, starts, ends) ==
    LET curend == ArrayElement(ends, curid)
    IN IF Len(b.levels) > 1
       THEN LET last_end == Back(b.levels).end
            IN IF last_end < curend
               THEN add_node(
                        left_shift_indices(
                            pop_levels([b EXCEPT !.num_children_to_copy = 0,
                                                 !.num_duplicates_to_copy = 0],
                                       curend)),
                        curid, curend)
               ELSE IF last_end = curend
                    THEN add_duplicate(b, curid)
                    ELSE add_node(b, curid, curend)
       ELSE add_node(b, curid, curend)

\* mutant: an interval that ends where the open one ends closes it (<= for <)
build_step_closing_on_equal_end(b, curid, starts, ends) ==
    LET curend == ArrayElement(ends, curid)
    IN IF Len(b.levels) > 1 /\ Back(b.levels).end <= curend
       THEN add_node(
                left_shift_indices(
                    pop_levels([b EXCEPT !.num_children_to_copy = 0,
                                         !.num_duplicates_to_copy = 0],
                               curend)),
                curid, curend)
       ELSE add_node(b, curid, curend)

\* one iteration of "for (const auto& curid : of_interest)"
build_step(b, curid, starts, ends) ==
    LET curend == ArrayElement(ends, curid)
    IN IF Len(b.levels) > 1
       THEN LET last_end == Back(b.levels).end
            IN IF last_end < curend
               THEN add_node(
                        left_shift_indices(
                            pop_levels([b EXCEPT !.num_children_to_copy = 0,
                                                 !.num_duplicates_to_copy = 0],
                                       curend)),
                        curid, curend)
               ELSE IF last_end = curend /\ ArrayElement(starts, curid) = ArrayElement(starts, b.last_id)
                    THEN add_duplicate(b, curid)
                    ELSE add_node(b, curid, curend)
       ELSE add_node(b, curid, curend)

\* the whole for loop, from position k (1-based) of the sorted of_interest
RECURSIVE build_loop(_, _, _, _, _)
build_loop(b, sorted, k, starts, ends) ==
    IF k > Len(sorted)
    THEN b
    ELSE build_loop(build_step(b, sorted[k], starts, ends), sorted, k + 1, starts, ends)

\* while (levels.size() > 1) { process_level(levels.back()); levels.pop_back(); }
RECURSIVE pop_remaining(_)
pop_remaining(b) ==
    IF Len(b.levels) > 1
    THEN pop_remaining([process_level(b, Back(b.levels)) EXCEPT !.levels = PopBack(b.levels)])
    ELSE b

\* build.hpp 237-244
build_finish(b) ==
    left_shift_indices(
        pop_remaining([b EXCEPT !.num_children_to_copy = 0,
                               !.num_duplicates_to_copy = 0]))

\* Level2 of the emission pass
Level2(working_at, working_start, output_offset) ==
    [working_at |-> working_at, working_start |-> working_start,
     output_offset |-> output_offset]

\* mutant: the children's slices are handed out from offset 0, over the root's
emit_init_from_zero(b, num_intervals) ==
    [root_children |-> b.levels[1].num_children,
     nodes |-> [k \in 1..Len(b.working_list) |-> Node(0)],
     starts |-> [k \in 1..Len(b.working_list) |-> 0],
     ends |-> [k \in 1..Len(b.working_list) |-> 0],
     duplicates |-> << >>,
     output_children_used |-> 0,
     history |-> << Level2(num_intervals, b.children_tmp_boundary, 0) >>]

\* state of the emission pass before its loop (build.hpp 252-277)
emit_init(b, num_intervals) ==
    [root_children |-> b.levels[1].num_children,
     nodes |-> [k \in 1..Len(b.working_list) |-> Node(0)],
     starts |-> [k \in 1..Len(b.working_list) |-> 0],
     ends |-> [k \in 1..Len(b.working_list) |-> 0],
     duplicates |-> << >>,
     output_children_used |-> b.levels[1].num_children,
     history |-> << Level2(num_intervals, b.children_tmp_boundary, 0) >>]

\* the "while (1)" loop of the emission pass (build.hpp 279-325)
RECURSIVE emit_loop(_, _, _, _, _)
emit_loop(o, b, num_intervals, starts, ends) ==
    LET current_state == Back(o.history)
    IN IF current_state.working_at = current_state.working_start
       THEN IF Len(o.history) = 1
            THEN o
            ELSE emit_loop([o EXCEPT !.history = PopBack(o.history)],
                           b, num_intervals, starts, ends)
       ELSE LET current_working_at == current_state.working_at - 1
                current_output_offset == current_state.output_offset
                hist1 == Put(o.history, Len(o.history) - 1,
                             [current_state EXCEPT
                                 !.working_at = current_working_at,
                                 !.output_offset = current_output_offset + 1])
                child == At(b.working_children, current_working_at)
                cur0 == At(b.working_list, child)
                has_dups == cur0.duplicates_start # cur0.duplicates_end
                dups1 == IF has_dups
                         THEN o.duplicates \o RevSlice(b.working_duplicates,
                                                       cur0.duplicates_start,
                                                       cur0.duplicates_end)
                         ELSE o.duplicates
                cur1 == IF has_dups
                        THEN [cur0 EXCEPT !.duplicates_start = Len(o.duplicates),
                                          !.duplicates_end = Len(dups1)]
                        ELSE cur0
                has_kids == cur0.children_start # cur0.children_end
                used1 == IF has_kids
                         THEN o.output_children_used
                                 + (cur0.children_end - cur0.children_start)
                         ELSE o.output_children_used
                cur2 == IF has_kids
                        THEN [cur1 EXCEPT !.children_start = o.output_children_used,
                                          !.children_end = used1]
                        ELSE cur1
                hist2 == IF has_kids
                         THEN Append(hist1, Level2(cur0.children_end, cur0.children_start,
                                                   o.output_children_used))
                         ELSE hist1
            IN emit_loop([o EXCEPT
                             !.nodes = Put(o.nodes, current_output_offset, cur2),
                             !.starts = Put(o.starts, current_output_offset,
                                            ArrayElement(starts, cur2.id)),
                             !.ends = Put(o.ends, current_output_offset, ArrayElement(ends, cur2.id)),
                             !.duplicates = dups1,
                             !.output_children_used = used1,
                             !.history = hist2],
                         b, num_intervals, starts, ends)

\* the Nclist value returned: root_children, nodes, starts, ends, duplicates
Nclist(o) ==
    [root_children |-> o.root_children, nodes |-> o.nodes,
     starts |-> o.starts, ends |-> o.ends, duplicates |-> o.duplicates]

\* build_internal after the sort: tree-building pass, then emission pass
build_internal(sorted, starts, ends) ==
    LET b == build_finish(build_loop(build_init(Len(sorted)), sorted, 1, starts, ends))
    IN Nclist(emit_loop(emit_init(b, Len(sorted)), b, Len(sorted), starts, ends))

\* std::iota(of_interest.begin(), of_interest.end(), 0) of build_custom
iota(num_intervals) == [k \in 1..num_intervals |-> k - 1]

\* a default-constructed Nclist
EmptyNclist ==
    [root_children |-> 0, nodes |-> << >>, starts |-> << >>, ends |-> << >>,
     duplicates |-> << >>]

(* ------------------------- the size checks of build -------------------- *)
\* an integer type: its number of binary digits and whether it is signed
IntegerType(bits, is_signed) == [bits |-> bits, is_signed |-> is_signed]

\* std::numeric_limits<type>::max()
numeric_limits_max(type) ==
    IF type.is_signed THEN 2^(type.bits - 1) - 1 ELSE 2^type.bits - 1

\* static_cast<typename std::make_unsigned<type>::type>(x)
static_cast_make_unsigned(type, x) == x % 2^type.bits

\* the value that x has as an argument of type
static_cast(type, x) ==
    IF type.is_signed
    THEN ((x + 2^(type.bits - 1)) % 2^type.bits) - 2^(type.bits - 1)
    ELSE x % 2^type.bits

\* what a call leaves: the container's size, and whether it threw
SizeResult(container, thrown) == [container |-> container, thrown |-> thrown]

\* mutant: the container is resized without the check
safe_resize_unchecked(container, Csize, Size_, size) ==
    SizeResult(static_cast(Csize, size), FALSE)

\* safe_resize(container, size) for a container of size type Csize that holds
\* container elements, and a size of type Size_
safe_resize(container, Csize, Size_, size) ==
    LET max_csize == numeric_limits_max(Csize)
        max_size == numeric_limits_max(Size_)
    IN IF /\ static_cast_make_unsigned(Size_, max_size)
                > static_cast_make_unsigned(Csize, max_csize)
          /\ static_cast_make_unsigned(Size_, size)
                > static_cast_make_unsigned(Csize, max_csize)
       THEN SizeResult(container, TRUE)
       ELSE SizeResult(static_cast(Csize, size), FALSE)

\* check_safe_ptrdiff<Iterator_>(size), Diff the iterator's difference type:
\* whether it throws
check_safe_ptrdiff(Diff, Size_, size) ==
    LET max_diff == numeric_limits_max(Diff)
        max_size == numeric_limits_max(Size_)
    IN /\ static_cast_make_unsigned(Size_, max_size)
             > static_cast_make_unsigned(Diff, max_diff)
       /\ static_cast_make_unsigned(Size_, size)
             > static_cast_make_unsigned(Diff, max_diff)

(* --------------------------- shared helpers ---------------------------- *)
\* std::lower_bound(v.begin() + first, v.begin() + first + count, value) - v.begin()
RECURSIVE lower_bound_loop(_, _, _, _)
lower_bound_loop(v, first, count, value) ==
    IF count > 0
    THEN LET step == count \div 2
             it == first + step
         IN IF At(v, it) < value
            THEN lower_bound_loop(v, it + 1, count - (step + 1), value)
            ELSE lower_bound_loop(v, first, step, value)
    ELSE first

lower_bound(v, first, last, value) == lower_bound_loop(v, first, last - first, value)

\* std::upper_bound(v.begin() + first, v.begin() + first + count, value) - v.begin()
RECURSIVE upper_bound_loop(_, _, _, _)
upper_bound_loop(v, first, count, value) ==
    IF count > 0
    THEN LET step == count \div 2
             it == first + step
         IN IF ~(value < At(v, it))
            THEN upper_bound_loop(v, it + 1, count - (step + 1), value)
            ELSE upper_bound_loop(v, first, step, value)
    ELSE first

upper_bound(v, first, last, value) == upper_bound_loop(v, first, last - first, value)

\* utils.hpp
safe_subtract_gap(query_start, max_gap) ==
    IF Position_.is_unsigned /\ query_start < max_gap THEN 0
    ELSE minus(query_start, max_gap)

\* utils.hpp
diff_above_gap(pos1, pos2, max_gap) ==
    IF pos1 > pos2 THEN minus(pos1, pos2) > max_gap ELSE minus(pos2, pos1) > max_gap

\* Workspace::State
State(cat, cend, skip) == [child_at |-> cat, child_end |-> cend, skip_search |-> skip]

\* mutant: the duplicates are inserted before the node's own id
report_duplicates_first(subject, matches, current_node) ==
    Append(matches \o Slice(subject.duplicates, current_node.duplicates_start,
                            current_node.duplicates_end),
           current_node.id)

\* matches.push_back(node.id) followed by the insertion of the node's duplicates
\* slice, which every query performs when it has not returned on quit_on_first
report(subject, matches, current_node) ==
    Append(matches, current_node.id)
        \o Slice(subject.duplicates, current_node.duplicates_start,
                 current_node.duplicates_end)

\* Workspace::State of the queries that never skip the search
\* (overlaps_end, overlaps_equal, overlaps_within)
PlainState(cat, cend) == [child_at |-> cat, child_end |-> cend]

\* what a query leaves behind: the output vector and the workspace stack
Result(matches, history) == [matches |-> matches, history |-> history]

\* the loop has passed subject.starts[child_at] to is_finished
is_finished_called(w, child_at) == [w EXCEPT !.tested = @ \cup {child_at}]

(* ---------------------------- overlaps_any ----------------------------- *)
any_mode(params) ==
    IF params.min_overlap > 0 THEN "MIN_OVERLAP"
    ELSE IF params.max_gap # None THEN "MAX_GAP"
    ELSE "BASIC"

any_effective_query_start(query_start, params) ==
    IF any_mode(params) = "MAX_GAP" THEN safe_subtract_gap(query_start, params.max_gap)
    ELSE IF any_mode(params) = "MIN_OVERLAP" THEN plus(query_start, params.min_overlap)
    ELSE maxed

\* mutant: the BASIC search treats ends as inclusive (lower_bound for upper_bound)
any_find_first_child_inclusive(subject, query_start, params, children_start, children_end) ==
    lower_bound(subject.ends, children_start, children_end,
                IF any_mode(params) = "BASIC"
                THEN query_start
                ELSE any_effective_query_start(query_start, params))

any_find_first_child(subject, query_start, params, children_start, children_end) ==
    IF any_mode(params) = "BASIC"
    THEN upper_bound(subject.ends, children_start, children_end, query_start)
    ELSE lower_bound(subject.ends, children_start, children_end,
                     any_effective_query_start(query_start, params))

any_can_skip_search(query_start, params, subject_start) ==
    IF any_mode(params) = "BASIC"
    THEN subject_start > query_start
    ELSE subject_start >= any_effective_query_start(query_start, params)

\* mutant: the MAX_GAP stop test uses >= where the code uses >
any_is_finished_strict(query_end, params, subject_start) ==
    IF any_mode(params) = "BASIC"
    THEN subject_start >= query_end
    ELSE IF any_mode(params) = "MAX_GAP"
    THEN IF subject_start < query_end
         THEN FALSE
         ELSE minus(subject_start, query_end) >= params.max_gap
    ELSE IF subject_start >= query_end
         THEN TRUE
         ELSE minus(query_end, subject_start) < params.min_overlap

any_is_finished(query_end, params, subject_start) ==
    IF any_mode(params) = "BASIC"
    THEN subject_start >= query_end
    ELSE IF any_mode(params) = "MAX_GAP"
    THEN IF subject_start < query_end
         THEN FALSE
         ELSE minus(subject_start, query_end) > params.max_gap
    ELSE IF subject_start >= query_end
         THEN TRUE
         ELSE minus(query_end, subject_start) < params.min_overlap

\* the min_overlap test on a visited node (overlaps_any.hpp 241-246)
\* mutant: the min_overlap test measures the overlap against the query start only
any_too_short_from_query_start(subject, query_start, query_end, params, current_subject) ==
    /\ any_mode(params) = "MIN_OVERLAP"
    /\ minus(Min2(query_end, At(subject.ends, current_subject)), query_start)
         < params.min_overlap

any_too_short(subject, query_start, query_end, params, current_subject) ==
    /\ any_mode(params) = "MIN_OVERLAP"
    /\ minus(Min2(query_end, At(subject.ends, current_subject)),
             Max2(query_start, At(subject.starts, current_subject))) < params.min_overlap

\* the frames pushed for the children of a reported node (overlaps_any.hpp 256-265)
any_descend(subject, query_start, params, history, current_node, skip_search) ==
    IF current_node.children_start # current_node.children_end
    THEN IF skip_search
         THEN Append(history, State(current_node.children_start,
                                    current_node.children_end, TRUE))
         ELSE LET start_pos == any_find_first_child(subject, query_start, params,
                                   current_node.children_start, current_node.children_end)
              IN IF start_pos # current_node.children_end
                 THEN Append(history,
                             State(start_pos, current_node.children_end,
                                   any_can_skip_search(query_start, params,
                                                       At(subject.starts, start_pos))))
                 ELSE history
    ELSE history

\* mutant: quit_on_first is tested after the duplicates have been inserted
any_visit_quit_after_duplicates(subject, query_start, query_end, params, w, current_subject, skip_search) ==
    LET current_node == At(subject.nodes, current_subject)
    IN IF any_too_short(subject, query_start, query_end, params, current_subject)
       THEN w
       ELSE IF params.quit_on_first
       THEN [w EXCEPT !.matches = report(subject, w.matches, current_node),
                      !.done = TRUE]
       ELSE [w EXCEPT
               !.matches = report(subject, w.matches, current_node),
               !.history = any_descend(subject, query_start, params, w.history,
                                       current_node, skip_search)]

\* what the loop does with the node it has just taken (overlaps_any.hpp 240-265),
\* before it iterates again; done is set when it returns on quit_on_first
any_visit(subject, query_start, query_end, params, w, current_subject, skip_search) ==
    LET current_node == At(subject.nodes, current_subject)
    IN IF any_too_short(subject, query_start, query_end, params, current_subject)
       THEN w
       ELSE IF params.quit_on_first
       THEN [w EXCEPT !.matches = Append(w.matches, current_node.id), !.done = TRUE]
       ELSE [w EXCEPT
               !.matches = report(subject, w.matches, current_node),
               !.history = any_descend(subject, query_start, params, w.history,
                                       current_node, skip_search)]

\* the "while (1)" loop of overlaps_any (overlaps_any.hpp 219-266)
RECURSIVE any_loop(_, _, _, _, _, _)
any_loop(subject, query_start, query_end, params, root_skip_search, w) ==
    IF w.done
    THEN w
    ELSE IF w.history = << >>
    THEN IF \/ w.root_child_at = subject.root_children
            \/ any_is_finished(query_end, params, At(subject.starts, w.root_child_at))
         THEN IF w.root_child_at = subject.root_children
              THEN w
              ELSE is_finished_called(w, w.root_child_at)
         ELSE any_loop(subject, query_start, query_end, params, root_skip_search,
                       any_visit(subject, query_start, query_end, params,
                                 [is_finished_called(w, w.root_child_at) EXCEPT !.root_child_at = @ + 1],
                                 w.root_child_at, root_skip_search))
    ELSE LET current_state == Back(w.history)
         IN IF \/ current_state.child_at = current_state.child_end
               \/ any_is_finished(query_end, params,
                                  At(subject.starts, current_state.child_at))
            THEN any_loop(subject, query_start, query_end, params, root_skip_search,
                          [(IF current_state.child_at = current_state.child_end
                            THEN w
                            ELSE is_finished_called(w, current_state.child_at))
                           EXCEPT !.history = PopBack(w.history)])
            ELSE any_loop(subject, query_start, query_end, params, root_skip_search,
                          any_visit(subject, query_start, query_end, params,
                                    [is_finished_called(w, current_state.child_at) EXCEPT !.history =
                                        Put(w.history, Len(w.history) - 1,
                                            [current_state EXCEPT !.child_at = @ + 1])],
                                    current_state.child_at, current_state.skip_search))

\* a call that has returned before its loop
Unwalked(history, matches) ==
    [root_child_at |-> 0, history |-> history, matches |-> matches, done |-> TRUE,
     tested |-> {}]

\* state of a walk before its loop: workspace.history.clear() runs on the stack
\* the workspace holds on entry; matches is the output vector at that point
Walk(root_child_at, history, matches) ==
    [root_child_at |-> root_child_at, history |-> clear(history), matches |-> matches,
     done |-> FALSE, tested |-> {}]

\* overlaps_any(subject, query_start, query_end, params, workspace, matches);
\* history is the stack the workspace holds on entry
\* the walk of overlaps_any: what it leaves in matches and in the workspace, and
\* the nodes it has passed to is_finished
any_walk(subject, query_start, query_end, params, history, matches) ==
    IF subject.root_children = 0
    THEN Unwalked(history, clear(matches))
    ELSE IF /\ any_mode(params) = "MIN_OVERLAP"
            /\ \/ minus(query_end, query_start) < params.min_overlap
               \/ minus(maxed, params.min_overlap) < query_start
    THEN Unwalked(history, clear(matches))
    ELSE LET root_skip_search ==
                 any_can_skip_search(query_start, params, At(subject.starts, 0))
             root_child_at ==
                 IF root_skip_search
                 THEN 0
                 ELSE any_find_first_child(subject, query_start, params,
                                           0, subject.root_children)
             w == any_loop(subject, query_start, query_end, params, root_skip_search,
                           Walk(root_child_at, history, clear(matches)))
         IN w

overlaps_any(subject, query_start, query_end, params, history, matches) ==
    LET w == any_walk(subject, query_start, query_end, params, history, matches)
    IN Result(w.matches, w.history)

(* --------------------------- overlaps_start ---------------------------- *)
start_effective_query_start(query_start, params) ==
    IF params.min_overlap > 0 THEN plus(query_start, params.min_overlap)
    ELSE IF params.max_gap > 0 THEN safe_subtract_gap(query_start, params.max_gap)
    ELSE query_start

start_is_simple(params) == ~(params.min_overlap > 0) /\ ~(params.max_gap > 0)

start_find_first_child(subject, query_start, params, children_start, children_end) ==
    lower_bound(subject.ends, children_start, children_end,
                start_effective_query_start(query_start, params))

start_skip_binary_search(query_start, params, subject_start) ==
    subject_start >= start_effective_query_start(query_start, params)

\* mutant: the max_gap stop test uses >= where the code uses >
start_is_finished_strict(query_start, query_end, params, subject_start) ==
    IF subject_start > query_start
    THEN \/ params.max_gap = 0
         \/ minus(subject_start, query_start) >= params.max_gap
         \/ /\ params.min_overlap > 0
            /\ \/ subject_start >= query_end
               \/ minus(query_end, subject_start) < params.min_overlap
    ELSE /\ params.min_overlap > 0
         /\ minus(query_end, subject_start) < params.min_overlap

start_is_finished(query_start, query_end, params, subject_start) ==
    IF subject_start > query_start
    THEN \/ params.max_gap = 0
         \/ minus(subject_start, query_start) > params.max_gap
         \/ /\ params.min_overlap > 0
            /\ \/ subject_start >= query_end
               \/ minus(query_end, subject_start) < params.min_overlap
    ELSE /\ params.min_overlap > 0
         /\ minus(query_end, subject_start) < params.min_overlap

\* the min_overlap test shared by overlaps_start, overlaps_end and overlaps_equal
\* (overlaps_start.hpp 245-252): the node and its children are passed over
overlap_too_short(query_start, query_end, params, subject_start, subject_end) ==
    /\ params.min_overlap > 0
    /\ LET common_end == Min2(subject_end, query_end)
           common_start == Max2(subject_start, query_start)
       IN \/ common_end <= common_start
          \/ minus(common_end, common_start) < params.min_overlap

\* the "continue" of overlaps_start.hpp 242-252: not taken when is_simple
start_pruned(query_start, query_end, params, subject_start, subject_end) ==
    /\ ~start_is_simple(params)
    /\ overlap_too_short(query_start, query_end, params, subject_start, subject_end)

\* okay of overlaps_start.hpp 241-258
start_okay(query_start, params, subject_start) ==
    IF start_is_simple(params)
    THEN subject_start = query_start
    ELSE IF params.max_gap > 0
    THEN ~diff_above_gap(query_start, subject_start, params.max_gap)
    ELSE subject_start = query_start

start_descend(subject, query_start, params, history, current_node, skip_search) ==
    IF current_node.children_start # current_node.children_end
    THEN IF skip_search
         THEN Append(history, State(current_node.children_start,
                                    current_node.children_end, TRUE))
         ELSE LET start_pos == start_find_first_child(subject, query_start, params,
                                   current_node.children_start, current_node.children_end)
              IN IF start_pos # current_node.children_end
                 THEN Append(history,
                             State(start_pos, current_node.children_end,
                                   start_skip_binary_search(query_start, params,
                                                            At(subject.starts, start_pos))))
                 ELSE history
    ELSE history

\* overlaps_start.hpp 236-279
start_visit(subject, query_start, query_end, params, w, current_subject, skip_search) ==
    LET current_node == At(subject.nodes, current_subject)
        subject_start == At(subject.starts, current_subject)
        subject_end == At(subject.ends, current_subject)
        history1 == start_descend(subject, query_start, params, w.history,
                                  current_node, skip_search)
    IN IF start_pruned(query_start, query_end, params, subject_start, subject_end)
       THEN w
       ELSE IF start_okay(query_start, params, subject_start)
       THEN IF params.quit_on_first
            THEN [w EXCEPT !.matches = Append(w.matches, current_node.id), !.done = TRUE]
            ELSE [w EXCEPT !.matches = report(subject, w.matches, current_node),
                           !.history = history1]
       ELSE [w EXCEPT !.history = history1]

\* the "while (1)" loop of overlaps_start (overlaps_start.hpp 215-280)
RECURSIVE start_loop(_, _, _, _, _, _)
start_loop(subject, query_start, query_end, params, root_skip_search, w) ==
    IF w.done
    THEN w
    ELSE IF w.history = << >>
    THEN IF \/ w.root_child_at = subject.root_children
            \/ start_is_finished(query_start, query_end, params,
                                 At(subject.starts, w.root_child_at))
         THEN IF w.root_child_at = subject.root_children
              THEN w
              ELSE is_finished_called(w, w.root_child_at)
         ELSE start_loop(subject, query_start, query_end, params, root_skip_search,
                         start_visit(subject, query_start, query_end, params,
                                     [is_finished_called(w, w.root_child_at) EXCEPT !.root_child_at = @ + 1],
                                     w.root_child_at, root_skip_search))
    ELSE LET current_state == Back(w.history)
         IN IF \/ current_state.child_at = current_state.child_end
               \/ start_is_finished(query_start, query_end, params,
                                    At(subject.starts, current_state.child_at))
            THEN start_loop(subject, query_start, query_end, params, root_skip_search,
                            [(IF current_state.child_at = current_state.child_end
                              THEN w
                              ELSE is_finished_called(w, current_state.child_at))
                             EXCEPT !.history = PopBack(w.history)])
            ELSE start_loop(subject, query_start, query_end, params, root_skip_search,
                            start_visit(subject, query_start, query_end, params,
                                        [is_finished_called(w, current_state.child_at) EXCEPT !.history =
                                            Put(w.history, Len(w.history) - 1,
                                                [current_state EXCEPT !.child_at = @ + 1])],
                                        current_state.child_at, current_state.skip_search))

\* the walk of overlaps_start: what it leaves in matches and in the workspace, and
\* the nodes it has passed to is_finished
start_walk(subject, query_start, query_end, params, history, matches) ==
    IF subject.root_children = 0
    THEN Unwalked(history, clear(matches))
    ELSE IF /\ params.min_overlap > 0
            /\ \/ minus(query_end, query_start) < params.min_overlap
               \/ minus(maxed, params.min_overlap) < query_start
    THEN Unwalked(history, clear(matches))
    ELSE LET root_skip_search ==
                 start_skip_binary_search(query_start, params, At(subject.starts, 0))
             root_child_at ==
                 IF root_skip_search
                 THEN 0
                 ELSE start_find_first_child(subject, query_start, params,
                                             0, subject.root_children)
             w == start_loop(subject, query_start, query_end, params, root_skip_search,
                             Walk(root_child_at, history, clear(matches)))
         IN w

overlaps_start(subject, query_start, query_end, params, history, matches) ==
    LET w == start_walk(subject, query_start, query_end, params, history, matches)
    IN Result(w.matches, w.history)

(* ---------------------------- overlaps_end ----------------------------- *)
\* overlaps_end.hpp 150-153, and the same lines of overlaps_equal.hpp (153-156)
effective_query_end(query_end, params) ==
    IF params.max_gap > 0 THEN safe_subtract_gap(query_end, params.max_gap) ELSE query_end

\* mutant: the search runs on the query end itself, max_gap not subtracted
end_find_first_child_no_gap(subject, query_end, params, children_start, children_end) ==
    lower_bound(subject.ends, children_start, children_end, query_end)

\* find_first_child of overlaps_end (155-160) and of overlaps_equal (158-163)
end_find_first_child(subject, query_end, params, children_start, children_end) ==
    lower_bound(subject.ends, children_start, children_end,
                effective_query_end(query_end, params))

end_is_finished(query_end, params, subject_start) ==
    IF subject_start > query_end
    THEN \/ params.max_gap = 0
         \/ params.min_overlap > 0
         \/ minus(subject_start, query_end) > params.max_gap
    ELSE /\ params.min_overlap > 0
         /\ minus(query_end, subject_start) < params.min_overlap

end_okay(query_end, params, subject_end) ==
    IF params.max_gap = 0
    THEN subject_end = query_end
    ELSE ~diff_above_gap(query_end, subject_end, params.max_gap)

\* the frame pushed for the children of a node by the queries that never skip
\* the search (overlaps_end.hpp 235-240; State has no skip_search there)
end_descend(subject, query_end, params, history, current_node) ==
    IF current_node.children_start # current_node.children_end
    THEN LET start_pos == end_find_first_child(subject, query_end, params,
                              current_node.children_start, current_node.children_end)
         IN IF start_pos # current_node.children_end
            THEN Append(history, PlainState(start_pos, current_node.children_end))
            ELSE history
    ELSE history

\* overlaps_end.hpp 204-240
end_visit(subject, query_start, query_end, params, w, current_subject) ==
    LET current_node == At(subject.nodes, current_subject)
        subject_start == At(subject.starts, current_subject)
        subject_end == At(subject.ends, current_subject)
        history1 == end_descend(subject, query_end, params, w.history, current_node)
    IN IF overlap_too_short(query_start, query_end, params, subject_start, subject_end)
       THEN w
       ELSE IF end_okay(query_end, params, subject_end)
       THEN IF params.quit_on_first
            THEN [w EXCEPT !.matches = Append(w.matches, current_node.id), !.done = TRUE]
            ELSE [w EXCEPT !.matches = report(subject, w.matches, current_node),
                           !.history = history1]
       ELSE [w EXCEPT !.history = history1]

\* the "while (1)" loop of overlaps_end (overlaps_end.hpp 186-241)
RECURSIVE end_loop(_, _, _, _, _)
end_loop(subject, query_start, query_end, params, w) ==
    IF w.done
    THEN w
    ELSE IF w.history = << >>
    THEN IF \/ w.root_child_at = subject.root_children
            \/ end_is_finished(query_end, params, At(subject.starts, w.root_child_at))
         THEN IF w.root_child_at = subject.root_children
              THEN w
              ELSE is_finished_called(w, w.root_child_at)
         ELSE end_loop(subject, query_start, query_end, params,
                       end_visit(subject, query_start, query_end, params,
                                 [is_finished_called(w, w.root_child_at) EXCEPT !.root_child_at = @ + 1], w.root_child_at))
    ELSE LET current_state == Back(w.history)
         IN IF \/ current_state.child_at = current_state.child_end
               \/ end_is_finished(query_end, params,
                                  At(subject.starts, current_state.child_at))
            THEN end_loop(subject, query_start, query_end, params,
                          [(IF current_state.child_at = current_state.child_end
                            THEN w
                            ELSE is_finished_called(w, current_state.child_at))
                           EXCEPT !.history = PopBack(w.history)])
            ELSE end_loop(subject, query_start, query_end, params,
                          end_visit(subject, query_start, query_end, params,
                                    [is_finished_called(w, current_state.child_at) EXCEPT !.history =
                                        Put(w.history, Len(w.history) - 1,
                                            [current_state EXCEPT !.child_at = @ + 1])],
                                    current_state.child_at))

\* the walk of overlaps_end: what it leaves in matches and in the workspace, and
\* the nodes it has passed to is_finished
end_walk(subject, query_start, query_end, params, history, matches) ==
    IF subject.root_children = 0
    THEN Unwalked(history, clear(matches))
    ELSE IF params.min_overlap > 0 /\ minus(query_end, query_start) < params.min_overlap
    THEN Unwalked(history, clear(matches))
    ELSE LET w == end_loop(subject, query_start, query_end, params,
                           Walk(end_find_first_child(subject, query_end, params,
                                                     0, subject.root_children),
                                history, clear(matches)))
         IN w

overlaps_end(subject, query_start, query_end, params, history, matches) ==
    LET w == end_walk(subject, query_start, query_end, params, history, matches)
    IN Result(w.matches, w.history)

(* --------------------------- overlaps_equal ---------------------------- *)
equal_is_finished(query_start, query_end, params, subject_start) ==
    IF subject_start > query_start
    THEN \/ IF params.max_gap > 0
            THEN minus(subject_start, query_start) > params.max_gap
            ELSE TRUE
         \/ /\ params.min_overlap > 0
            /\ \/ subject_start >= query_end
               \/ minus(query_end, subject_start) < params.min_overlap
    ELSE /\ params.min_overlap > 0
         /\ minus(query_end, subject_start) < params.min_overlap

\* mutant: only the starts are compared under max_gap
equal_okay_start_only(query_start, query_end, params, subject_start, subject_end) ==
    IF params.max_gap > 0
    THEN ~diff_above_gap(query_start, subject_start, params.max_gap)
    ELSE subject_start = query_start /\ subject_end = query_end

equal_okay(query_start, query_end, params, subject_start, subject_end) ==
    IF params.max_gap > 0
    THEN /\ ~diff_above_gap(query_start, subject_start, params.max_gap)
         /\ ~diff_above_gap(query_end, subject_end, params.max_gap)
    ELSE subject_start = query_start /\ subject_end = query_end

\* overlaps_equal.hpp 214-253
equal_visit(subject, query_start, query_end, params, w, current_subject) ==
    LET current_node == At(subject.nodes, current_subject)
        subject_start == At(subject.starts, current_subject)
        subject_end == At(subject.ends, current_subject)
        history1 == end_descend(subject, query_end, params, w.history, current_node)
    IN IF overlap_too_short(query_start, query_end, params, subject_start, subject_end)
       THEN w
       ELSE IF equal_okay(query_start, query_end, params, subject_start, subject_end)
       THEN IF params.quit_on_first
            THEN [w EXCEPT !.matches = Append(w.matches, current_node.id), !.done = TRUE]
            ELSE IF params.max_gap = 0
            THEN [w EXCEPT !.matches = report(subject, w.matches, current_node),
                           !.done = TRUE]
            ELSE [w EXCEPT !.matches = report(subject, w.matches, current_node),
                           !.history = history1]
       ELSE [w EXCEPT !.history = history1]

\* the "while (1)" loop of overlaps_equal (overlaps_equal.hpp 196-254)
RECURSIVE equal_loop(_, _, _, _, _)
equal_loop(subject, query_start, query_end, params, w) ==
    IF w.done
    THEN w
    ELSE IF w.history = << >>
    THEN IF \/ w.root_child_at = subject.root_children
            \/ equal_is_finished(query_start, query_end, params,
                                 At(subject.starts, w.root_child_at))
         THEN IF w.root_child_at = subject.root_children
              THEN w
              ELSE is_finished_called(w, w.root_child_at)
         ELSE equal_loop(subject, query_start, query_end, params,
                         equal_visit(subject, query_start, query_end, params,
                                     [is_finished_called(w, w.root_child_at) EXCEPT !.root_child_at = @ + 1], w.root_child_at))
    ELSE LET current_state == Back(w.history)
         IN IF \/ current_state.child_at = current_state.child_end
               \/ equal_is_finished(query_start, query_end, params,
                                    At(subject.starts, current_state.child_at))
            THEN equal_loop(subject, query_start, query_end, params,
                            [(IF current_state.child_at = current_state.child_end
                              THEN w
                              ELSE is_finished_called(w, current_state.child_at))
                             EXCEPT !.history = PopBack(w.history)])
            ELSE equal_loop(subject, query_start, query_end, params,
                            equal_visit(subject, query_start, query_end, params,
                                        [is_finished_called(w, current_state.child_at) EXCEPT !.history =
                                            Put(w.history, Len(w.history) - 1,
                                                [current_state EXCEPT !.child_at = @ + 1])],
                                        current_state.child_at))

\* the walk of overlaps_equal: what it leaves in matches and in the workspace, and
\* the nodes it has passed to is_finished
equal_walk(subject, query_start, query_end, params, history, matches) ==
    IF subject.root_children = 0
    THEN Unwalked(history, clear(matches))
    ELSE IF params.min_overlap > 0 /\ minus(query_end, query_start) < params.min_overlap
    THEN Unwalked(history, clear(matches))
    ELSE LET w == equal_loop(subject, query_start, query_end, params,
                             Walk(end_find_first_child(subject, query_end, params,
                                                       0, subject.root_children),
                                  history, clear(matches)))
         IN w

overlaps_equal(subject, query_start, query_end, params, history, matches) ==
    LET w == equal_walk(subject, query_start, query_end, params, history, matches)
    IN Result(w.matches, w.history)

(* --------------------------- overlaps_within --------------------------- *)
\* mutant: the search skips the children that end at query_end (upper_bound)
within_find_first_child_exclusive(subject, query_end, children_start, children_end) ==
    upper_bound(subject.ends, children_start, children_end, query_end)

within_find_first_child(subject, query_end, children_start, children_end) ==
    lower_bound(subject.ends, children_start, children_end, query_end)

within_is_finished(query_start, subject_start) == subject_start > query_start

\* mutant: the widths are subtracted the other way round
within_add_self_swapped(subject, query_start, query_end, params, current_subject) ==
    ~ /\ params.max_gap # None
      /\ LET subject_start == At(subject.starts, current_subject)
             subject_end == At(subject.ends, current_subject)
             subject_width == minus(subject_end, subject_start)
             query_width == minus(query_end, query_start)
         IN minus(query_width, subject_width) > params.max_gap

\* add_self of overlaps_within.hpp 169-177
within_add_self(subject, query_start, query_end, params, current_subject) ==
    ~ /\ params.max_gap # None
      /\ LET subject_start == At(subject.starts, current_subject)
             subject_end == At(subject.ends, current_subject)
             subject_width == minus(subject_end, subject_start)
             query_width == minus(query_end, query_start)
         IN minus(subject_width, query_width) > params.max_gap

\* overlaps_within.hpp 189-194
within_descend(subject, query_end, history, current_node) ==
    IF current_node.children_start # current_node.children_end
    THEN LET start_pos == within_find_first_child(subject, query_end,
                              current_node.children_start, current_node.children_end)
         IN IF start_pos # current_node.children_end
            THEN Append(history, PlainState(start_pos, current_node.children_end))
            ELSE history
    ELSE history

\* mutant: a node that exceeds max_gap is passed over together with its children
within_visit_pruning(subject, query_start, query_end, params, w, current_subject) ==
    LET current_node == At(subject.nodes, current_subject)
    IN IF within_add_self(subject, query_start, query_end, params, current_subject)
       THEN IF params.quit_on_first
            THEN [w EXCEPT !.matches = Append(w.matches, current_node.id), !.done = TRUE]
            ELSE [w EXCEPT !.matches = report(subject, w.matches, current_node),
                           !.history = within_descend(subject, query_end, w.history,
                                                      current_node)]
       ELSE w

\* overlaps_within.hpp 165-194
within_visit(subject, query_start, query_end, params, w, current_subject) ==
    LET current_node == At(subject.nodes, current_subject)
        add_self == within_add_self(subject, query_start, query_end, params,
                                    current_subject)
        history1 == within_descend(subject, query_end, w.history, current_node)
    IN IF add_self
       THEN IF params.quit_on_first
            THEN [w EXCEPT !.matches = Append(w.matches, current_node.id), !.done = TRUE]
            ELSE [w EXCEPT !.matches = report(subject, w.matches, current_node),
                           !.history = history1]
       ELSE [w EXCEPT !.history = history1]

\* the "while (1)" loop of overlaps_within (overlaps_within.hpp 147-195)
RECURSIVE within_loop(_, _, _, _, _)
within_loop(subject, query_start, query_end, params, w) ==
    IF w.done
    THEN w
    ELSE IF w.history = << >>
    THEN IF \/ w.root_child_at = subject.root_children
            \/ within_is_finished(query_start, At(subject.starts, w.root_child_at))
         THEN IF w.root_child_at = subject.root_children
              THEN w
              ELSE is_finished_called(w, w.root_child_at)
         ELSE within_loop(subject, query_start, query_end, params,
                          within_visit(subject, query_start, query_end, params,
                                       [is_finished_called(w, w.root_child_at) EXCEPT !.root_child_at = @ + 1],
                                       w.root_child_at))
    ELSE LET current_state == Back(w.history)
         IN IF \/ current_state.child_at = current_state.child_end
               \/ within_is_finished(query_start,
                                     At(subject.starts, current_state.child_at))
            THEN within_loop(subject, query_start, query_end, params,
                             [(IF current_state.child_at = current_state.child_end
                               THEN w
                               ELSE is_finished_called(w, current_state.child_at))
                              EXCEPT !.history = PopBack(w.history)])
            ELSE within_loop(subject, query_start, query_end, params,
                             within_visit(subject, query_start, query_end, params,
                                          [is_finished_called(w, current_state.child_at) EXCEPT !.history =
                                              Put(w.history, Len(w.history) - 1,
                                                  [current_state EXCEPT
                                                      !.child_at = @ + 1])],
                                          current_state.child_at))

\* mutant: a query with query_end < query_start returns at once
overlaps_within_rejecting_reversed(subject, query_start, query_end, params, history, matches) ==
    IF subject.root_children = 0 \/ query_end < query_start
    THEN Result(clear(matches), history)
    ELSE IF params.min_overlap > 0 /\ minus(query_end, query_start) < params.min_overlap
    THEN Result(clear(matches), history)
    ELSE LET w == within_loop(subject, query_start, query_end, params,
                              Walk(within_find_first_child(subject, query_end,
                                                           0, subject.root_children),
                                   history, clear(matches)))
         IN Result(w.matches, w.history)

overlaps_within(subject, query_start, query_end, params, history, matches) ==
    IF subject.root_children = 0
    THEN Result(clear(matches), history)
    ELSE IF params.min_overlap > 0 /\ minus(query_end, query_start) < params.min_overlap
    THEN Result(clear(matches), history)
    ELSE LET w == within_loop(subject, query_start, query_end, params,
                              Walk(within_find_first_child(subject, query_end,
                                                           0, subject.root_children),
                                   history, clear(matches)))
         IN Result(w.matches, w.history)

(* --------------------------- overlaps_extend --------------------------- *)
extend_effective_query_start(query_start, params) ==
    IF params.min_overlap > 0 THEN plus(query_start, params.min_overlap) ELSE query_start

extend_find_first_child(subject, query_start, params, children_start, children_end) ==
    lower_bound(subject.ends, children_start, children_end,
                extend_effective_query_start(query_start, params))

extend_can_skip_search(query_start, params, subject_start) ==
    subject_start >= extend_effective_query_start(query_start, params)

extend_is_finished(query_end, params, subject_start) ==
    IF params.min_overlap > 0
    THEN IF subject_start >= query_end
         THEN TRUE
         ELSE minus(query_end, subject_start) < params.min_overlap
    ELSE subject_start > query_end

\* mutant: a node that the query does not enclose is passed over with its children
extend_pruned_unless_enclosed(query_start, query_end, params, subject_start, subject_end) ==
    LET subject_width == minus(subject_end, subject_start)
        query_width == minus(query_end, query_start)
    IN \/ params.min_overlap > 0 /\ subject_width < params.min_overlap
       \/ params.max_gap # None /\ minus(query_width, subject_width) > params.max_gap
       \/ ~(query_start <= subject_start /\ query_end >= subject_end)

\* the two "continue"s of overlaps_extend.hpp 215-224
extend_pruned(query_start, query_end, params, subject_start, subject_end) ==
    LET subject_width == minus(subject_end, subject_start)
        query_width == minus(query_end, query_start)
    IN \/ params.min_overlap > 0 /\ subject_width < params.min_overlap
       \/ params.max_gap # None /\ minus(query_width, subject_width) > params.max_gap

\* the test of overlaps_extend.hpp 226
extend_enclosed(query_start, query_end, subject_start, subject_end) ==
    query_start <= subject_start /\ query_end >= subject_end

extend_descend(subject, query_start, params, history, current_node, skip_search) ==
    IF current_node.children_start # current_node.children_end
    THEN IF skip_search
         THEN Append(history, State(current_node.children_start,
                                    current_node.children_end, TRUE))
         ELSE LET start_pos == extend_find_first_child(subject, query_start, params,
                                   current_node.children_start, current_node.children_end)
              IN IF start_pos # current_node.children_end
                 THEN Append(history,
                             State(start_pos, current_node.children_end,
                                   extend_can_skip_search(query_start, params,
                                                          At(subject.starts, start_pos))))
                 ELSE history
    ELSE history

\* overlaps_extend.hpp 210-245
extend_visit(subject, query_start, query_end, params, w, current_subject, skip_search) ==
    LET current_node == At(subject.nodes, current_subject)
        subject_start == At(subject.starts, current_subject)
        subject_end == At(subject.ends, current_subject)
        history1 == extend_descend(subject, query_start, params, w.history,
                                   current_node, skip_search)
    IN IF extend_pruned(query_start, query_end, params, subject_start, subject_end)
       THEN w
       ELSE IF extend_enclosed(query_start, query_end, subject_start, subject_end)
       THEN IF params.quit_on_first
            THEN [w EXCEPT !.matches = Append(w.matches, current_node.id), !.done = TRUE]
            ELSE [w EXCEPT !.matches = report(subject, w.matches, current_node),
                           !.history = history1]
       ELSE [w EXCEPT !.history = history1]

\* the "while (1)" loop of overlaps_extend (overlaps_extend.hpp 189-246)
RECURSIVE extend_loop(_, _, _, _, _, _)
extend_loop(subject, query_start, query_end, params, root_skip_search, w) ==
    IF w.done
    THEN w
    ELSE IF w.history = << >>
    THEN IF \/ w.root_child_at = subject.root_children
            \/ extend_is_finished(query_end, params, At(subject.starts, w.root_child_at))
         THEN IF w.root_child_at = subject.root_children
              THEN w
              ELSE is_finished_called(w, w.root_child_at)
         ELSE extend_loop(subject, query_start, query_end, params, root_skip_search,
                          extend_visit(subject, query_start, query_end, params,
                                       [is_finished_called(w, w.root_child_at) EXCEPT !.root_child_at = @ + 1],
                                       w.root_child_at, root_skip_search))
    ELSE LET current_state == Back(w.history)
         IN IF \/ current_state.child_at = current_state.child_end
               \/ extend_is_finished(query_end, params,
                                     At(subject.starts, current_state.child_at))
            THEN extend_loop(subject, query_start, query_end, params, root_skip_search,
                             [(IF current_state.child_at = current_state.child_end
                               THEN w
                               ELSE is_finished_called(w, current_state.child_at))
                              EXCEPT !.history = PopBack(w.history)])
            ELSE extend_loop(subject, query_start, query_end, params, root_skip_search,
                             extend_visit(subject, query_start, query_end, params,
                                          [is_finished_called(w, current_state.child_at) EXCEPT !.history =
                                              Put(w.history, Len(w.history) - 1,
                                                  [current_state EXCEPT
                                                      !.child_at = @ + 1])],
                                          current_state.child_at,
                                          current_state.skip_search))

overlaps_extend(subject, query_start, query_end, params, history, matches) ==
    IF subject.root_children = 0
    THEN Result(clear(matches), history)
    ELSE IF /\ params.min_overlap > 0
            /\ \/ minus(query_end, query_start) < params.min_overlap
               \/ minus(maxed, params.min_overlap) < query_start
    THEN Result(clear(matches), history)
    ELSE LET root_skip_search ==
                 extend_can_skip_search(query_start, params, At(subject.starts, 0))
             root_child_at ==
                 IF root_skip_search
                 THEN 0
                 ELSE extend_find_first_child(subject, query_start, params,
                                              0, subject.root_children)
             w == extend_loop(subject, query_start, query_end, params, root_skip_search,
                              Walk(root_child_at, history, clear(matches)))
         IN Result(w.matches, w.history)

(* ------------------------------- nearest ------------------------------- *)
\* nearest_before(subject, root_index, end_position, quit_on_first, matches):
\* the value of matches on return
RECURSIVE nearest_before(_, _, _, _, _)
nearest_before(subject, current_subject, end_position, quit_on_first, matches) ==
    LET current_node == At(subject.nodes, current_subject)
    IN IF quit_on_first
       THEN Append(matches, current_node.id)
       ELSE IF current_node.children_start = current_node.children_end
       THEN report(subject, matches, current_node)
       ELSE IF At(subject.ends, current_node.children_end - 1) # end_position
       THEN report(subject, matches, current_node)
       ELSE nearest_before(subject, current_node.children_end - 1, end_position,
                           quit_on_first, report(subject, matches, current_node))

\* nearest_after(subject, root_index, start_position, quit_on_first, matches):
\* the value of matches on return
RECURSIVE nearest_after(_, _, _, _, _)
nearest_after(subject, current_subject, start_position, quit_on_first, matches) ==
    LET current_node == At(subject.nodes, current_subject)
    IN IF quit_on_first
       THEN Append(matches, current_node.id)
       ELSE IF current_node.children_start = current_node.children_end
       THEN report(subject, matches, current_node)
       ELSE IF At(subject.starts, current_node.children_start) # start_position
       THEN report(subject, matches, current_node)
       ELSE nearest_after(subject, current_node.children_start, start_position,
                          quit_on_first, report(subject, matches, current_node))

nearest_find_first_child(subject, query_start, children_start, children_end) ==
    upper_bound(subject.ends, children_start, children_end, query_start)

nearest_can_skip_search(query_start, subject_start) == subject_start > query_start

\* mutant: a sibling that starts exactly at the query end is still visited
nearest_is_finished_inclusive(query_end, subject_start) == subject_start > query_end

nearest_is_finished(query_end, subject_start) == subject_start >= query_end

\* matches after the adjacency test on the child before start_pos
\* (nearest.hpp 185-193 at the root, 255-262 below it)
nearest_previous_adjacent(subject, query_start, adjacent_equals_overlap, quit_on_first, matches, children_start, start_pos) ==
    IF /\ adjacent_equals_overlap
       /\ start_pos > children_start
       /\ query_start = At(subject.ends, start_pos - 1)
    THEN nearest_before(subject, start_pos - 1, query_start, quit_on_first, matches)
    ELSE matches

\* mutant: of the subjects that start at the query end only the sibling
\* itself is reported, not its children that start there too
nearest_next_adjacent_shallow(subject, query_end, adjacent_equals_overlap, quit_on_first, matches, child_at) ==
    IF adjacent_equals_overlap /\ At(subject.starts, child_at) = query_end
    THEN IF quit_on_first
         THEN Append(matches, At(subject.nodes, child_at).id)
         ELSE report(subject, matches, At(subject.nodes, child_at))
    ELSE matches

\* matches after the adjacency test on the sibling that stops the iteration
\* (nearest.hpp 206-211 at the root, 225-230 below it)
nearest_next_adjacent(subject, query_end, adjacent_equals_overlap, quit_on_first, matches, child_at) ==
    IF adjacent_equals_overlap /\ At(subject.starts, child_at) = query_end
    THEN nearest_after(subject, child_at, query_end, quit_on_first, matches)
    ELSE matches

\* nearest.hpp 240-267
nearest_visit(subject, query_start, quit_on_first, adjacent_equals_overlap, w, current_subject, skip_search) ==
    LET current_node == At(subject.nodes, current_subject)
        matches1 == report(subject, w.matches, current_node)
    IN IF quit_on_first
       THEN [w EXCEPT !.matches = Append(w.matches, current_node.id), !.done = TRUE]
       ELSE IF current_node.children_start = current_node.children_end
       THEN [w EXCEPT !.matches = matches1]
       ELSE IF skip_search
       THEN [w EXCEPT !.matches = matches1,
                      !.history = Append(w.history,
                                         State(current_node.children_start,
                                               current_node.children_end, TRUE))]
       ELSE LET start_pos == nearest_find_first_child(subject, query_start,
                                 current_node.children_start, current_node.children_end)
            IN [w EXCEPT
                  !.matches = nearest_previous_adjacent(subject, query_start,
                                  adjacent_equals_overlap, FALSE, matches1,
                                  current_node.children_start, start_pos),
                  !.history =
                      IF start_pos # current_node.children_end
                      THEN Append(w.history,
                                  State(start_pos, current_node.children_end,
                                        nearest_can_skip_search(
                                            query_start, At(subject.starts, start_pos))))
                      ELSE w.history]

\* the "while (1)" loop of nearest_overlaps (nearest.hpp 197-268)
RECURSIVE nearest_loop(_, _, _, _, _, _, _)
nearest_loop(subject, query_start, query_end, quit_on_first, adjacent_equals_overlap, root_skip_search, w) ==
    IF w.done
    THEN w
    ELSE IF w.history = << >>
    THEN IF w.root_child_at = subject.root_children
         THEN w
         ELSE IF nearest_is_finished(query_end, At(subject.starts, w.root_child_at))
         THEN [is_finished_called(w, w.root_child_at) EXCEPT !.matches =
                  nearest_next_adjacent(subject, query_end, adjacent_equals_overlap,
                                        quit_on_first, w.matches, w.root_child_at)]
         ELSE nearest_loop(subject, query_start, query_end, quit_on_first,
                           adjacent_equals_overlap, root_skip_search,
                           nearest_visit(subject, query_start, quit_on_first,
                                         adjacent_equals_overlap,
                                         [is_finished_called(w, w.root_child_at)
                                              EXCEPT !.root_child_at = @ + 1],
                                         w.root_child_at, root_skip_search))
    ELSE LET current_state == Back(w.history)
         IN IF current_state.child_at = current_state.child_end
            THEN nearest_loop(subject, query_start, query_end, quit_on_first,
                              adjacent_equals_overlap, root_skip_search,
                              [w EXCEPT !.history = PopBack(w.history)])
            ELSE IF nearest_is_finished(query_end,
                                        At(subject.starts, current_state.child_at))
            THEN nearest_loop(subject, query_start, query_end, quit_on_first,
                              adjacent_equals_overlap, root_skip_search,
                              [is_finished_called(w, current_state.child_at) EXCEPT
                                  !.matches =
                                      nearest_next_adjacent(subject, query_end,
                                          adjacent_equals_overlap, FALSE, w.matches,
                                          current_state.child_at),
                                  !.history = PopBack(w.history)])
            ELSE nearest_loop(subject, query_start, query_end, quit_on_first,
                              adjacent_equals_overlap, root_skip_search,
                              nearest_visit(subject, query_start, quit_on_first,
                                            adjacent_equals_overlap,
                                            [is_finished_called(w, current_state.child_at)
                                                 EXCEPT !.history =
                                                Put(w.history, Len(w.history) - 1,
                                                    [current_state EXCEPT
                                                        !.child_at = @ + 1])],
                                            current_state.child_at,
                                            current_state.skip_search))

\* nearest_overlaps(...): the walk record on return; its root_child_at is the
\* returned index, its history the workspace stack (left as it was on entry
\* when the function returns before workspace.history.clear())
nearest_overlaps(subject, query_start, query_end, quit_on_first, adjacent_equals_overlap, history, matches) ==
    LET root_skip_search == nearest_can_skip_search(query_start, At(subject.starts, 0))
        root_child_at ==
            IF root_skip_search
            THEN 0
            ELSE nearest_find_first_child(subject, query_start, 0, subject.root_children)
        matches0 ==
            IF root_skip_search
            THEN matches
            ELSE nearest_previous_adjacent(subject, query_start, adjacent_equals_overlap,
                                           quit_on_first, matches, 0, root_child_at)
    IN IF quit_on_first /\ matches0 # << >>
       THEN [root_child_at |-> root_child_at, history |-> history,
             matches |-> matches0, done |-> TRUE]
       ELSE nearest_loop(subject, query_start, query_end, quit_on_first,
                         adjacent_equals_overlap, root_skip_search,
                         Walk(root_child_at, history, matches0))

\* mutant: the following subject is taken only when strictly nearer (< for <=)
nearest_take_next_strict(has_previous, to_previous, has_next, to_next) ==
    has_next /\ (~has_previous \/ to_next < to_previous)

\* the condition of nearest.hpp 369
nearest_take_next(has_previous, to_previous, has_next, to_next) ==
    has_next /\ (~has_previous \/ to_next <= to_previous)

\* the condition of nearest.hpp 362
nearest_take_previous(has_previous, to_previous, has_next, to_next) ==
    has_previous /\ (~has_next \/ to_previous <= to_next)

\* nearest.hpp 354-374: no overlap was found, root_index is where the walk stopped
nearest_flanks(subject, query_start, query_end, quit_on_first, root_index) ==
    LET has_previous == root_index # 0
        has_next == root_index < subject.root_children
        to_previous == IF has_previous
                       THEN query_start - At(subject.ends, root_index - 1)
                       ELSE 0
        to_next == IF has_next
                   THEN At(subject.starts, root_index) - query_end
                   ELSE 0
        matches1 ==
            IF nearest_take_previous(has_previous, to_previous, has_next, to_next)
            THEN nearest_before(subject, root_index - 1,
                                At(subject.ends, root_index - 1), quit_on_first, << >>)
            ELSE << >>
    IN IF matches1 # << >> /\ quit_on_first
       THEN matches1
       ELSE IF nearest_take_next(has_previous, to_previous, has_next, to_next)
       THEN nearest_after(subject, root_index, At(subject.starts, root_index),
                          quit_on_first, matches1)
       ELSE matches1

nearest(subject, query_start, query_end, params, history, matches) ==
    IF subject.root_children = 0
    THEN Result(clear(matches), history)
    ELSE LET w == nearest_overlaps(subject, query_start, query_end,
                                   params.quit_on_first,
                                   params.adjacent_equals_overlap, history,
                                   clear(matches))
         IN IF w.matches # << >>
            THEN Result(w.matches, w.history)
            ELSE Result(nearest_flanks(subject, query_start, query_end,
                                       params.quit_on_first, w.root_child_at),
                        w.history)

(* --------------- the arithmetic that a call performs ------------------- *)
\* Each operator below gives the mathematical results of the Position_
\* subtractions and additions that the named piece of code evaluates, with the
\* guards and the short-circuits of the code.

\* utils.hpp 9-15
safe_subtract_gap_results(query_start, max_gap) ==
    IF Position_.is_unsigned /\ query_start < max_gap THEN {} ELSE {query_start - max_gap}

\* utils.hpp 18-24
diff_above_gap_results(pos1, pos2, max_gap) ==
    IF pos1 > pos2 THEN {pos1 - pos2} ELSE {pos2 - pos1}

\* "maxed - min_overlap < query_start" and the addition that follows it
effective_start_results(query_start, params) ==
    {maxed - params.min_overlap}
        \cup (IF minus(maxed, params.min_overlap) < query_start
              THEN {}
              ELSE {query_start + params.min_overlap})

\* "common_end <= common_start || common_end - common_start < min_overlap"
overlap_too_short_results(query_start, query_end, params, subject_start, subject_end) ==
    IF params.min_overlap > 0 /\ ~(Min2(subject_end, query_end) <= Max2(subject_start, query_start))
    THEN {Min2(subject_end, query_end) - Max2(subject_start, query_start)}
    ELSE {}

\* overlaps_any.hpp 158-175
any_results_before_loop(query_start, query_end, params) ==
    IF any_mode(params) = "MIN_OVERLAP"
    THEN {query_end - query_start}
            \cup (IF minus(query_end, query_start) < params.min_overlap
                  THEN {}
                  ELSE effective_start_results(query_start, params))
    ELSE IF any_mode(params) = "MAX_GAP"
    THEN safe_subtract_gap_results(query_start, params.max_gap)
    ELSE {}

\* overlaps_any.hpp 196-210
any_is_finished_results(query_end, params, subject_start) ==
    IF any_mode(params) = "MAX_GAP" /\ ~(subject_start < query_end)
    THEN {subject_start - query_end}
    ELSE IF any_mode(params) = "MIN_OVERLAP" /\ ~(subject_start >= query_end)
    THEN {query_end - subject_start}
    ELSE {}

\* overlaps_any.hpp 241-246
any_visit_results(query_start, query_end, params, subject_start, subject_end) ==
    IF any_mode(params) = "MIN_OVERLAP"
    THEN {Min2(query_end, subject_end) - Max2(query_start, subject_start)}
    ELSE {}

\* everything overlaps_any evaluates: before its loop, and on each node it has
\* passed to is_finished, the stop test and, when that fails, the loop body
any_results(subject, query_start, query_end, params) ==
    IF subject.root_children = 0
    THEN {}
    ELSE any_results_before_loop(query_start, query_end, params)
            \cup UNION {LET subject_start == At(subject.starts, child_at)
                            subject_end == At(subject.ends, child_at)
                        IN any_is_finished_results(query_end, params, subject_start)
                               \cup (IF any_is_finished(query_end, params, subject_start)
                                     THEN {}
                                     ELSE any_visit_results(query_start, query_end, params, subject_start,
                                                           subject_end)) :
                           child_at \in any_walk(subject, query_start, query_end, params,
                                                << >>, << >>).tested}

\* overlaps_start.hpp 151-168
start_results_before_loop(query_start, query_end, params) ==
    IF params.min_overlap > 0
    THEN {query_end - query_start}
            \cup (IF minus(query_end, query_start) < params.min_overlap
                  THEN {}
                  ELSE effective_start_results(query_start, params))
    ELSE IF params.max_gap > 0
    THEN safe_subtract_gap_results(query_start, params.max_gap)
    ELSE {}

\* the min_overlap part of is_finished in overlaps_start and overlaps_equal
\* (overlaps_start.hpp 190-202)
min_overlap_finished_results(query_start, query_end, params, subject_start) ==
    IF params.min_overlap > 0 /\ ~(subject_start > query_start /\ subject_start >= query_end)
    THEN {query_end - subject_start}
    ELSE {}

\* overlaps_start.hpp 182-205; overlaps_equal.hpp 165-191 evaluates the same
start_is_finished_results(query_start, query_end, params, subject_start) ==
    IF subject_start > query_start
    THEN IF params.max_gap > 0
         THEN {subject_start - query_start}
                 \cup (IF minus(subject_start, query_start) > params.max_gap
                       THEN {}
                       ELSE min_overlap_finished_results(query_start, query_end, params,
                                                         subject_start))
         ELSE {}
    ELSE min_overlap_finished_results(query_start, query_end, params, subject_start)

\* overlaps_start.hpp 241-258
start_visit_results(query_start, query_end, params, subject_start, subject_end) ==
    IF start_is_simple(params)
    THEN {}
    ELSE overlap_too_short_results(query_start, query_end, params, subject_start, subject_end)
            \cup (IF \/ overlap_too_short(query_start, query_end, params,
                                          subject_start, subject_end)
                     \/ ~(params.max_gap > 0)
                  THEN {}
                  ELSE diff_above_gap_results(query_start, subject_start, params.max_gap))

\* everything overlaps_start evaluates: before its loop, and on each node it has
\* passed to is_finished, the stop test and, when that fails, the loop body
start_results(subject, query_start, query_end, params) ==
    IF subject.root_children = 0
    THEN {}
    ELSE start_results_before_loop(query_start, query_end, params)
            \cup UNION {LET subject_start == At(subject.starts, child_at)
                            subject_end == At(subject.ends, child_at)
                        IN start_is_finished_results(query_start, query_end, params, subject_start)
                               \cup (IF start_is_finished(query_start, query_end, params, subject_start)
                                     THEN {}
                                     ELSE start_visit_results(query_start, query_end, params, subject_start,
                                                           subject_end)) :
                           child_at \in start_walk(subject, query_start, query_end, params,
                                                << >>, << >>).tested}

\* overlaps_end.hpp 144-153 and overlaps_equal.hpp 147-156
end_results_before_loop(query_start, query_end, params) ==
    (IF params.min_overlap > 0 THEN {query_end - query_start} ELSE {})
        \cup (IF \/ params.min_overlap > 0 /\ minus(query_end, query_start) < params.min_overlap
                 \/ ~(params.max_gap > 0)
              THEN {}
              ELSE safe_subtract_gap_results(query_end, params.max_gap))

\* overlaps_end.hpp 162-181
end_is_finished_results(query_end, params, subject_start) ==
    IF subject_start > query_end
    THEN IF params.max_gap = 0 \/ params.min_overlap > 0
         THEN {}
         ELSE {subject_start - query_end}
    ELSE IF params.min_overlap > 0
    THEN {query_end - subject_start}
    ELSE {}

\* overlaps_end.hpp 208-223
end_visit_results(query_start, query_end, params, subject_start, subject_end) ==
    overlap_too_short_results(query_start, query_end, params, subject_start, subject_end)
        \cup (IF \/ overlap_too_short(query_start, query_end, params,
                                      subject_start, subject_end)
                 \/ params.max_gap = 0
              THEN {}
              ELSE diff_above_gap_results(query_end, subject_end, params.max_gap))

\* everything overlaps_end evaluates: before its loop, and on each node it has
\* passed to is_finished, the stop test and, when that fails, the loop body
end_results(subject, query_start, query_end, params) ==
    IF subject.root_children = 0
    THEN {}
    ELSE end_results_before_loop(query_start, query_end, params)
            \cup UNION {LET subject_start == At(subject.starts, child_at)
                            subject_end == At(subject.ends, child_at)
                        IN end_is_finished_results(query_end, params, subject_start)
                               \cup (IF end_is_finished(query_end, params, subject_start)
                                     THEN {}
                                     ELSE end_visit_results(query_start, query_end, params, subject_start,
                                                           subject_end)) :
                           child_at \in end_walk(subject, query_start, query_end, params,
                                                << >>, << >>).tested}

\* overlaps_equal.hpp 218-233
equal_visit_results(query_start, query_end, params, subject_start, subject_end) ==
    overlap_too_short_results(query_start, query_end, params, subject_start, subject_end)
        \cup (IF \/ overlap_too_short(query_start, query_end, params,
                                      subject_start, subject_end)
                 \/ ~(params.max_gap > 0)
              THEN {}
              ELSE diff_above_gap_results(query_start, subject_start, params.max_gap)
                      \cup (IF diff_above_gap(query_start, subject_start, params.max_gap)
                            THEN {}
                            ELSE diff_above_gap_results(query_end, subject_end,
                                                        params.max_gap)))

\* everything overlaps_equal evaluates: before its loop, and on each node it has
\* passed to is_finished, the stop test and, when that fails, the loop body
equal_results(subject, query_start, query_end, params) ==
    IF subject.root_children = 0
    THEN {}
    ELSE end_results_before_loop(query_start, query_end, params)
            \cup UNION {LET subject_start == At(subject.starts, child_at)
                            subject_end == At(subject.ends, child_at)
                        IN start_is_finished_results(query_start, query_end, params, subject_start)
                               \cup (IF equal_is_finished(query_start, query_end, params, subject_start)
                                     THEN {}
                                     ELSE equal_visit_results(query_start, query_end, params, subject_start,
                                                           subject_end)) :
                           child_at \in equal_walk(subject, query_start, query_end, params,
                                                << >>, << >>).tested}

(* --------------------------- the state machine ------------------------- *)
\* Position_, declared with the position type, is the type that the index and
\* the calls are instantiated with
VARIABLES
    subject_starts,   \* the caller's array of start positions
    subject_ends,     \* the caller's array of end positions
    of_interest,      \* the ids handed to build_internal(), in the caller's order
    subject,          \* the Nclist returned by build()
    workspace,        \* the history stack of the caller's workspace
    matches,          \* the caller's output vector
    call,             \* the query call that has just returned, if any
    entry,            \* what workspace and matches held when that call was entered
    pc,               \* "init": nothing built; "built": index ready; "done": a query returned
    sizes,            \* a call of safe_resize or check_safe_ptrdiff: its types, arguments and outcome
    pass              \* the tree-building pass of a build_internal that is under way

vars == <<Position_, subject_starts, subject_ends, of_interest, subject, workspace, matches, call, entry, pc, sizes, pass>>

\* the positions drawn for a narrow type: its limits, their neighbours and zero
NarrowPositions == {lowest, lowest + 1, 0, maxed - 1, maxed}

\* the values of max_gap and min_overlap drawn for a narrow type
NarrowWidths == {0, 1, maxed - 1, maxed}

Positions == IF Position_ = IntType THEN 0..MaxPos ELSE NarrowPositions

\* the values max_gap is drawn from
Gaps == IF Position_ = IntType THEN 0..MaxGap ELSE NarrowWidths

\* the values min_overlap is drawn from
MinOverlaps == IF Position_ = IntType THEN 0..MaxMinOverlap ELSE NarrowWidths

\* query bounds are drawn from Positions and from the subjects' own bounds
QueryPositions == Positions \cup ToSet(subject_starts) \cup ToSet(subject_ends)

\* the contents of the caller's workspace stack and output vector
Entry(history, output) == [history |-> history, matches |-> output]

NoCall ==
    [kind |-> "none", query_start |-> 0, query_end |-> 0, max_gap |-> None,
     min_overlap |-> 0, quit_on_first |-> FALSE, adjacent_equals_overlap |-> FALSE]

Call(kind, query_start, query_end, params) ==
    [kind |-> kind, query_start |-> query_start, query_end |-> query_end,
     max_gap |-> params.max_gap, min_overlap |-> params.min_overlap,
     quit_on_first |-> params.quit_on_first,
     adjacent_equals_overlap |-> params.adjacent_equals_overlap]

\* parameter records; max_gap = None is an unset optional
Parameters(max_gap, min_overlap, quit_on_first, adjacent_equals_overlap) ==
    [max_gap |-> max_gap, min_overlap |-> min_overlap, quit_on_first |-> quit_on_first,
     adjacent_equals_overlap |-> adjacent_equals_overlap]

\* OverlapsAnyParameters / OverlapsWithinParameters / OverlapsExtendParameters
OptionalGapParameters ==
    {Parameters(g, m, q, FALSE) :
        g \in {None} \cup Gaps, m \in MinOverlaps, q \in BOOLEAN}

\* OverlapsStartParameters / OverlapsEndParameters / OverlapsEqualParameters
GapParameters ==
    {Parameters(g, m, q, FALSE) : g \in Gaps, m \in MinOverlaps, q \in BOOLEAN}

\* NearestParameters
NearestParameterSet ==
    {Parameters(None, 0, q, a) : q \in BOOLEAN, a \in BOOLEAN}

\* no call of safe_resize or check_safe_ptrdiff is looked at
NoSizes ==
    [op |-> "none", Csize |-> IntegerType(1, FALSE), Diff |-> IntegerType(1, FALSE),
     Size_ |-> IntegerType(1, FALSE), size |-> 0, before |-> 0, container |-> 0,
     thrown |-> FALSE]

\* the tree-building pass at one of its steps: where it is (at), the sorted
\* of_interest, the 1-based position k of the next curid, the working vectors
\* and counters b, and the (parent, child) offsets into working_list in the
\* order in which add_node linked them (parent = -1: the root level)
Pass(at, sorted, k, b, added) ==
    [at |-> at, sorted |-> sorted, k |-> k, b |-> b, added |-> added]

\* no build_internal is under way
NoPass == Pass("idle", << >>, 1, build_init(0), << >>)

\* nothing built, no query run: a default-constructed index, workspace and output
Fresh ==
    /\ of_interest = << >>
    /\ subject = EmptyNclist
    /\ workspace = << >>
    /\ matches = << >>
    /\ call = NoCall
    /\ entry = Entry(<< >>, << >>)
    /\ pc = "init"
    /\ sizes = NoSizes
    /\ pass = NoPass

\* the caller's arrays: up to MaxN intervals with start <= end, nothing built yet
Init ==
    /\ Position_ = IntType
    /\ \E n \in 0..MaxN :
          /\ subject_starts \in [1..n -> Positions]
          /\ subject_ends \in [1..n -> Positions]
    /\ \A k \in DOMAIN subject_starts : subject_starts[k] <= subject_ends[k]
    /\ Fresh

\* up to MaxFewN intervals with start <= end over a narrow position type,
\* unsigned or signed
InitNarrow ==
    /\ Position_ \in {NarrowUnsigned} \cup NarrowSigned
    /\ \E n \in 0..MaxFewN :
          /\ subject_starts \in [1..n -> Positions]
          /\ subject_ends \in [1..n -> Positions]
    /\ \A k \in DOMAIN subject_starts : subject_starts[k] <= subject_ends[k]
    /\ Fresh

\* the same with up to MaxFewN intervals over 0..MaxFewPos
InitFew ==
    /\ \E n \in 0..MaxFewN :
          /\ subject_starts \in [1..n -> 0..MaxFewPos]
          /\ subject_ends \in [1..n -> 0..MaxFewPos]
    /\ \A k \in DOMAIN subject_starts : subject_starts[k] <= subject_ends[k]
    /\ Position_ = IntType
    /\ Fresh

\* up to MaxFewN intervals whose bounds are not checked: start > end may hold
InitUnchecked ==
    /\ Position_ = IntType
    /\ \E n \in 0..MaxFewN :
          /\ subject_starts \in [1..n -> Positions]
          /\ subject_ends \in [1..n -> Positions]
    /\ Fresh

\* the subjects of scenario S5: [10, 20) and [15, 18)
InitS5 ==
    /\ subject_starts = <<10, 15>>
    /\ subject_ends = <<20, 18>>
    /\ Position_ = IntType
    /\ Fresh

\* build(num_intervals, starts, ends)
Build ==
    /\ pc = "init"
    /\ of_interest' = iota(Len(subject_starts))
    /\ \E sorted \in sorted_of_interest(of_interest', Pointer(subject_starts), Pointer(subject_ends)) :
          subject' = build_internal(sorted, Pointer(subject_starts), Pointer(subject_ends))
    /\ pc' = "built"
    /\ UNCHANGED <<Position_, subject_starts, subject_ends, workspace, matches, call, entry, sizes, pass>>

\* the arrays of distinct ids below num_intervals, in every order
SubsetArrays(num_intervals) ==
    UNION {Arrangements(K) : K \in SUBSET (0..(num_intervals - 1))}

\* build(num_subset, subset, starts, ends)
BuildSubset ==
    /\ pc = "init"
    /\ of_interest' \in SubsetArrays(Len(subject_starts))
    /\ \E sorted \in sorted_of_interest(of_interest', Pointer(subject_starts), Pointer(subject_ends)) :
          subject' = build_internal(sorted, Pointer(subject_starts), Pointer(subject_ends))
    /\ pc' = "built"
    /\ UNCHANGED <<Position_, subject_starts, subject_ends, workspace, matches, call, entry, sizes, pass>>

\* a query call returning r on the built index
Returns(kind, query_start, query_end, params, r) ==
    /\ matches' = r.matches
    /\ workspace' = r.history
    /\ call' = Call(kind, query_start, query_end, params)
    /\ entry' = Entry(workspace, matches)
    /\ pc' = "done"
    /\ UNCHANGED <<Position_, subject_starts, subject_ends, of_interest, subject, sizes, pass>>

\* the caller keeps its workspace and output vector for the next query
Reuse ==
    /\ pc = "done"
    /\ pc' = "built"
    /\ call' = NoCall
    /\ UNCHANGED <<Position_, subject_starts, subject_ends, of_interest, subject,
                   workspace, matches, entry, sizes, pass>>

OverlapsAny ==
    /\ pc = "built"
    /\ \E query_start \in QueryPositions, query_end \in QueryPositions,
          params \in OptionalGapParameters :
          Returns("any", query_start, query_end, params,
                  overlaps_any(subject, query_start, query_end, params,
                                workspace, matches))

NextAny == Build \/ OverlapsAny

SpecAny == Init /\ [][NextAny]_vars

OverlapsStart ==
    /\ pc = "built"
    /\ \E query_start \in QueryPositions, query_end \in QueryPositions, params \in GapParameters :
          Returns("start", query_start, query_end, params,
                  overlaps_start(subject, query_start, query_end, params,
                                workspace, matches))

NextStart == Build \/ OverlapsStart

SpecStart == Init /\ [][NextStart]_vars

OverlapsEnd ==
    /\ pc = "built"
    /\ \E query_start \in QueryPositions, query_end \in QueryPositions, params \in GapParameters :
          Returns("end", query_start, query_end, params,
                  overlaps_end(subject, query_start, query_end, params,
                                workspace, matches))

NextEnd == Build \/ OverlapsEnd

SpecEnd == Init /\ [][NextEnd]_vars

OverlapsEqual ==
    /\ pc = "built"
    /\ \E query_start \in QueryPositions, query_end \in QueryPositions, params \in GapParameters :
          Returns("equal", query_start, query_end, params,
                  overlaps_equal(subject, query_start, query_end, params,
                                workspace, matches))

NextEqual == Build \/ OverlapsEqual

SpecEqual == Init /\ [][NextEqual]_vars

OverlapsWithin ==
    /\ pc = "built"
    /\ \E query_start \in QueryPositions, query_end \in QueryPositions,
          params \in OptionalGapParameters :
          Returns("within", query_start, query_end, params,
                  overlaps_within(subject, query_start, query_end, params,
                                workspace, matches))

NextWithin == Build \/ OverlapsWithin

SpecWithin == Init /\ [][NextWithin]_vars

OverlapsExtend ==
    /\ pc = "built"
    /\ \E query_start \in QueryPositions, query_end \in QueryPositions,
          params \in OptionalGapParameters :
          Returns("extend", query_start, query_end, params,
                  overlaps_extend(subject, query_start, query_end, params,
                                workspace, matches))

NextExtend == Build \/ OverlapsExtend

SpecExtend == Init /\ [][NextExtend]_vars

Nearest ==
    /\ pc = "built"
    /\ \E query_start \in QueryPositions, query_end \in QueryPositions,
          params \in NearestParameterSet :
          /\ query_start <= query_end
          /\ Returns("nearest", query_start, query_end, params,
                     nearest(subject, query_start, query_end, params, workspace, matches))

NextNearest == Build \/ Nearest

SpecNearest == Init /\ [][NextNearest]_vars

Next ==
    \/ Build
    \/ BuildSubset
    \/ Reuse
    \/ OverlapsAny
    \/ OverlapsStart
    \/ OverlapsEnd
    \/ OverlapsEqual
    \/ OverlapsWithin
    \/ OverlapsExtend
    \/ Nearest

Spec == Init /\ [][Next]_vars

\* build() alone, in its direct and its subset form
NextBuild == Build \/ BuildSubset

SpecBuild == Init /\ [][NextBuild]_vars

\* every query kind on one index built directly
NextQueries ==
    \/ Build
    \/ OverlapsAny
    \/ OverlapsStart
    \/ OverlapsEnd
    \/ OverlapsEqual
    \/ OverlapsWithin
    \/ OverlapsExtend
    \/ Nearest

SpecQueries == InitFew /\ [][NextQueries]_vars

\* every query kind on one index built from a subset array
NextShuffle ==
    \/ BuildSubset
    \/ OverlapsAny
    \/ OverlapsStart
    \/ OverlapsEnd
    \/ OverlapsEqual
    \/ OverlapsWithin
    \/ OverlapsExtend
    \/ Nearest

SpecShuffle == InitFew /\ [][NextShuffle]_vars

\* queries that follow one another on the same workspace and output vector
NextReuse ==
    \/ Build
    \/ OverlapsAny
    \/ OverlapsStart
    \/ OverlapsEnd
    \/ OverlapsEqual
    \/ OverlapsWithin
    \/ OverlapsExtend
    \/ Nearest
    \/ Reuse

SpecReuse == InitFew /\ [][NextReuse]_vars

\* the two forms of build() and overlaps_any
NextForms == Build \/ BuildSubset \/ OverlapsAny

SpecForms == InitFew /\ [][NextForms]_vars

\* the six overlap queries on an index over a narrow position type
NextNarrow ==
    \/ Build
    \/ OverlapsAny
    \/ OverlapsStart
    \/ OverlapsEnd
    \/ OverlapsEqual
    \/ OverlapsWithin
    \/ OverlapsExtend

SpecNarrow == InitNarrow /\ [][NextNarrow]_vars

\* every query kind on an index built from intervals whose bounds are not checked
SpecUnchecked == InitUnchecked /\ [][NextQueries]_vars

\* the integer types drawn for Csize, Diff and Size_
IntegerTypes == {IntegerType(bits, s) : bits \in Width..(Width + 2), s \in BOOLEAN}

\* a container of any size its size type allows, a size of any non-negative
\* value of its type (a count of intervals), and no call made yet
InitSizes ==
    /\ Position_ = IntType
    /\ subject_starts = << >>
    /\ subject_ends = << >>
    /\ of_interest = << >>
    /\ subject = EmptyNclist
    /\ workspace = << >>
    /\ matches = << >>
    /\ call = NoCall
    /\ entry = Entry(<< >>, << >>)
    /\ pc = "init"
    /\ pass = NoPass
    /\ \E Csize \in IntegerTypes, Diff \in IntegerTypes, Size_ \in IntegerTypes :
          \E container \in 0..numeric_limits_max(Csize),
             size \in 0..numeric_limits_max(Size_) :
             sizes = [op |-> "none", Csize |-> Csize, Diff |-> Diff, Size_ |-> Size_,
                      size |-> size, before |-> container, container |-> container,
                      thrown |-> FALSE]

\* safe_resize(container, size)
SafeResize ==
    /\ sizes.op = "none"
    /\ LET r == safe_resize(sizes.container, sizes.Csize, sizes.Size_, sizes.size)
       IN sizes' = [sizes EXCEPT !.op = "safe_resize", !.container = r.container,
                                 !.thrown = r.thrown]
    /\ UNCHANGED <<Position_, subject_starts, subject_ends, of_interest, subject,
                   workspace, matches, call, entry, pc, pass>>

\* check_safe_ptrdiff<Iterator_>(size)
CheckSafePtrdiff ==
    /\ sizes.op = "none"
    /\ sizes' = [sizes EXCEPT
                    !.op = "check_safe_ptrdiff",
                    !.thrown = check_safe_ptrdiff(sizes.Diff, sizes.Size_, sizes.size)]
    /\ UNCHANGED <<Position_, subject_starts, subject_ends, of_interest, subject,
                   workspace, matches, call, entry, pc, pass>>

NextSizes == SafeResize \/ CheckSafePtrdiff

SpecSizes == InitSizes /\ [][NextSizes]_vars

\* the id that the next iteration of the tree-building loop takes
curid == pass.sorted[pass.k]

\* the loop of the tree-building pass has an iteration left
PassIterates == pass.at = "loop" /\ pass.k <= Len(pass.sorted)

\* levels.size() > 1 && last_end < curend (build.hpp 204-206)
PassCloses ==
    /\ Len(pass.b.levels) > 1
    /\ Back(pass.b.levels).end < ArrayElement(Pointer(subject_ends), curid)

\* levels.size() > 1 && last_end == curend && starts[curid] == starts[last_id]
\* (build.hpp 204, 217-218)
PassRepeats ==
    /\ Len(pass.b.levels) > 1
    /\ Back(pass.b.levels).end = ArrayElement(Pointer(subject_ends), curid)
    /\ ArrayElement(Pointer(subject_starts), curid)
          = ArrayElement(Pointer(subject_starts), pass.b.last_id)

\* build_internal up to its loop: the sort and the working vectors
PassBegin ==
    /\ pc = "init" /\ pass.at = "idle"
    /\ of_interest' \in SubsetArrays(Len(subject_starts))
    /\ \E sorted \in sorted_of_interest(of_interest', Pointer(subject_starts),
                                       Pointer(subject_ends)) :
          pass' = Pass("loop", sorted, 1, build_init(Len(sorted)), << >>)
    /\ UNCHANGED <<Position_, subject_starts, subject_ends, subject, workspace,
                   matches, call, entry, pc, sizes>>

\* the do-while loop that closes the levels curid is not nested in
PassPop ==
    /\ PassIterates /\ PassCloses
    /\ pass' = [pass EXCEPT
                   !.at = "popped",
                   !.b = pop_levels([pass.b EXCEPT !.num_children_to_copy = 0,
                                                   !.num_duplicates_to_copy = 0],
                                    ArrayElement(Pointer(subject_ends), curid))]
    /\ UNCHANGED <<Position_, subject_starts, subject_ends, of_interest, subject,
                   workspace, matches, call, entry, pc, sizes>>

\* left_shift_indices() after the levels were closed
PassShift ==
    /\ pass.at = "popped"
    /\ pass' = [pass EXCEPT !.at = "shifted", !.b = left_shift_indices(pass.b)]
    /\ UNCHANGED <<Position_, subject_starts, subject_ends, of_interest, subject,
                   workspace, matches, call, entry, pc, sizes>>

\* curid is recorded as a duplicate of the open interval
PassDuplicate ==
    /\ PassIterates /\ PassRepeats
    /\ pass' = [pass EXCEPT !.k = @ + 1, !.b = add_duplicate(pass.b, curid)]
    /\ UNCHANGED <<Position_, subject_starts, subject_ends, of_interest, subject,
                   workspace, matches, call, entry, pc, sizes>>

\* curid becomes a node, the child of the level on top of the stack
PassAdd ==
    /\ \/ pass.at = "shifted"
       \/ PassIterates /\ ~PassCloses /\ ~PassRepeats
    /\ pass' = [pass EXCEPT
                   !.at = "loop",
                   !.k = @ + 1,
                   !.b = add_node(pass.b, curid,
                                  ArrayElement(Pointer(subject_ends), curid)),
                   !.added = Append(@, [parent |-> IF Len(pass.b.levels) > 1
                                                   THEN Back(pass.b.levels).offset
                                                   ELSE 0 - 1,
                                        child |-> Len(pass.b.working_list)])]
    /\ UNCHANGED <<Position_, subject_starts, subject_ends, of_interest, subject,
                   workspace, matches, call, entry, pc, sizes>>

\* after the loop: the levels that are still open are closed
PassRemaining ==
    /\ pass.at = "loop" /\ pass.k > Len(pass.sorted)
    /\ pass' = [pass EXCEPT
                   !.at = "remaining",
                   !.b = pop_remaining([pass.b EXCEPT !.num_children_to_copy = 0,
                                                      !.num_duplicates_to_copy = 0])]
    /\ UNCHANGED <<Position_, subject_starts, subject_ends, of_interest, subject,
                   workspace, matches, call, entry, pc, sizes>>

\* the last left_shift_indices(): the tree-building pass is over
PassFinish ==
    /\ pass.at = "remaining"
    /\ pass' = [pass EXCEPT !.at = "finished", !.b = left_shift_indices(pass.b)]
    /\ UNCHANGED <<Position_, subject_starts, subject_ends, of_interest, subject,
                   workspace, matches, call, entry, pc, sizes>>

\* the emission pass, and build_internal returns
PassEmit ==
    /\ pass.at = "finished"
    /\ subject' = Nclist(emit_loop(emit_init(pass.b, Len(pass.sorted)), pass.b,
                                   Len(pass.sorted), Pointer(subject_starts),
                                   Pointer(subject_ends)))
    /\ pc' = "built"
    /\ pass' = [pass EXCEPT !.at = "emitted"]
    /\ UNCHANGED <<Position_, subject_starts, subject_ends, of_interest, workspace,
                   matches, call, entry, sizes>>

\* build_internal, one step of its tree-building pass at a time
NextPass ==
    \/ PassBegin
    \/ PassPop
    \/ PassShift
    \/ PassDuplicate
    \/ PassAdd
    \/ PassRemaining
    \/ PassFinish
    \/ PassEmit

SpecPass == Init /\ [][NextPass]_vars

\* overlaps_within on the subjects of scenario S5
SpecS5 == InitS5 /\ [][NextWithin]_vars

(* ------------------------- what the claims speak of -------------------- *)
\* ids of the subjects handed to build()
Ids == ToSet(of_interest)

s_start(i) == At(subject_starts, i)

s_end(i) == At(subject_ends, i)

\* min(q_end, s_end[i]) - max(q_start, s_start[i])
OverlapLength(i) ==
    Min2(call.query_end, s_end(i)) - Max2(call.query_start, s_start(i))

Returned(kind) == pc = "done" /\ call.kind = kind

\* the query had q_start <= q_end
ValidQuery == call.query_start <= call.query_end

\* a call with q_start <= q_end that ran to the end of its walk
Full(kind) == Returned(kind) /\ ~call.quit_on_first /\ ValidQuery

\* |a - b|
AbsDiff(a, b) == IF a > b THEN a - b ELSE b - a

\* the min_overlap requirement of the claims: none when min_overlap = 0
EnoughOverlap(i) == call.min_overlap > 0 => OverlapLength(i) >= call.min_overlap

(* ------------------------------ overlaps_any --------------------------- *)
\* C1: overlaps_any with default parameters (max_gap unset, min_overlap = 0,
\* quit_on_first = false) returns exactly the ids i with
\* s_start[i] < q_end and q_start < s_end[i].
C1_AnyDefault ==
    (Full("any") /\ call.max_gap = None /\ call.min_overlap = 0)
        => ToSet(matches) =
              {i \in Ids : s_start(i) < call.query_end /\ call.query_start < s_end(i)}

\* a default overlaps_any call on an index with a duplicate and a nested node
\* that reports some subjects and leaves others out
C1_Witness ==
    /\ Full("any") /\ call.max_gap = None /\ call.min_overlap = 0
    /\ subject.duplicates # << >>
    /\ \E k \in 1..Len(subject.nodes) :
          subject.nodes[k].children_start # subject.nodes[k].children_end
    /\ matches # << >>
    /\ ToSet(matches) # Ids

\* C2: overlaps_any with max_gap = g set and min_overlap = 0 returns exactly the
\* ids i with s_start[i] <= q_end + g and q_start <= s_end[i] + g; with g = 0 a
\* subject contiguous with the query is reported.
C2_AnyMaxGap ==
    (Full("any") /\ call.max_gap # None /\ call.min_overlap = 0)
        => ToSet(matches) =
              {i \in Ids : /\ s_start(i) <= call.query_end + call.max_gap
                           /\ call.query_start <= s_end(i) + call.max_gap}

\* max_gap = 0 and a non-empty subject that ends exactly where the non-empty
\* query starts is reported, while some other subject is not
C2_Witness ==
    /\ Full("any") /\ call.max_gap = 0 /\ call.min_overlap = 0
    /\ call.query_start < call.query_end
    /\ \E i \in Ids : /\ s_end(i) = call.query_start
                      /\ s_start(i) < s_end(i)
                      /\ i \in ToSet(matches)
    /\ ToSet(matches) # Ids

\* C3: overlaps_any with min_overlap = m > 0 returns exactly the ids i with
\* min(q_end, s_end[i]) - max(q_start, s_start[i]) >= m; not descending below a
\* node that fails the test loses no qualifying subject.
C3_AnyMinOverlap ==
    (Full("any") /\ call.min_overlap > 0)
        => ToSet(matches) = {i \in Ids : OverlapLength(i) >= call.min_overlap}

\* a node with children that passes the search and the stop test but fails the
\* min_overlap test, so that its children are pruned, while another subject
\* qualifies
C3_Witness ==
    /\ Full("any") /\ call.min_overlap > 0
    /\ matches # << >>
    /\ \E k \in 1..Len(subject.nodes) :
          /\ subject.nodes[k].children_start # subject.nodes[k].children_end
          /\ subject.ends[k] >= call.query_start + call.min_overlap
          /\ subject.starts[k] <= call.query_end - call.min_overlap
          /\ OverlapLength(subject.nodes[k].id) < call.min_overlap

(* ------------------- overlaps_start / _end / _equal -------------------- *)
\* C4: overlaps_start returns exactly the ids i with
\* |q_start - s_start[i]| <= max_gap and, when min_overlap > 0, with
\* min(q_end, s_end[i]) - max(q_start, s_start[i]) >= min_overlap.
C4_Start ==
    Full("start")
        => ToSet(matches) =
              {i \in Ids : /\ AbsDiff(call.query_start, s_start(i)) <= call.max_gap
                           /\ EnoughOverlap(i)}

\* max_gap and min_overlap both positive: a subject starting off the query start
\* is reported, another one within max_gap is left out for its overlap
C4_Witness ==
    /\ Full("start") /\ call.max_gap > 0 /\ call.min_overlap > 0
    /\ \E i \in ToSet(matches) : s_start(i) # call.query_start
    /\ \E i \in Ids : /\ AbsDiff(call.query_start, s_start(i)) <= call.max_gap
                      /\ i \notin ToSet(matches)

\* C5: overlaps_end returns exactly the ids i with |q_end - s_end[i]| <= max_gap
\* and, when min_overlap > 0, with overlap length >= min_overlap.
C5_End ==
    Full("end")
        => ToSet(matches) =
              {i \in Ids : /\ AbsDiff(call.query_end, s_end(i)) <= call.max_gap
                           /\ EnoughOverlap(i)}

\* max_gap and min_overlap both positive: a subject ending off the query end is
\* reported, another one within max_gap is left out for its overlap
C5_Witness ==
    /\ Full("end") /\ call.max_gap > 0 /\ call.min_overlap > 0
    /\ \E i \in ToSet(matches) : s_end(i) # call.query_end
    /\ \E i \in Ids : /\ AbsDiff(call.query_end, s_end(i)) <= call.max_gap
                      /\ i \notin ToSet(matches)

\* C6: overlaps_equal returns exactly the ids i with both endpoint gaps
\* <= max_gap (and overlap length >= min_overlap when min_overlap > 0); with
\* max_gap = 0 whatever is reported is one node followed by its duplicates.
C6_Equal ==
    Full("equal")
        => /\ ToSet(matches) =
                 {i \in Ids : /\ AbsDiff(call.query_start, s_start(i)) <= call.max_gap
                              /\ AbsDiff(call.query_end, s_end(i)) <= call.max_gap
                              /\ EnoughOverlap(i)}
           /\ (call.max_gap = 0 /\ matches # << >>)
                 => \E k \in 1..Len(subject.nodes) :
                       matches = report(subject, << >>, subject.nodes[k])

\* max_gap = 0: the walk returned at a node that is nested in another one and
\* carries a duplicate
C6_Witness ==
    /\ Full("equal") /\ call.max_gap = 0
    /\ Len(matches) >= 2
    /\ subject.root_children < Len(subject.nodes)
    /\ matches[1] # subject.nodes[1].id

(* ------------------- overlaps_within / overlaps_extend ----------------- *)
\* C7: overlaps_within returns exactly the ids i with s_start[i] <= q_start and
\* q_end <= s_end[i], restricted when max_gap is set to
\* (s_end[i] - s_start[i]) - (q_end - q_start) <= max_gap, and nothing when
\* min_overlap > q_end - q_start; a node over max_gap is left out while its
\* qualifying descendants are reported.
C7_Within ==
    Full("within")
        => ToSet(matches) =
              {i \in Ids :
                  /\ s_start(i) <= call.query_start
                  /\ call.query_end <= s_end(i)
                  /\ call.max_gap # None
                        => (s_end(i) - s_start(i)) - (call.query_end - call.query_start)
                              <= call.max_gap
                  /\ ~(call.min_overlap > call.query_end - call.query_start)}

\* a node that encloses the query is left out for max_gap while a node of its
\* child slice is reported
C7_Witness ==
    /\ Full("within") /\ call.max_gap # None
    /\ \E k \in 1..Len(subject.nodes) :
          /\ subject.starts[k] <= call.query_start
          /\ call.query_end <= subject.ends[k]
          /\ subject.nodes[k].id \notin ToSet(matches)
          /\ \E c \in (subject.nodes[k].children_start + 1)..subject.nodes[k].children_end :
                subject.nodes[c].id \in ToSet(matches)

\* C8: overlaps_extend returns exactly the ids i with q_start <= s_start[i] and
\* s_end[i] <= q_end, restricted when max_gap is set to
\* (q_end - q_start) - (s_end[i] - s_start[i]) <= max_gap and when
\* min_overlap > 0 to s_end[i] - s_start[i] >= min_overlap; a qualifying subject
\* nested in subjects the query does not enclose is reported.
C8_Extend ==
    Full("extend")
        => ToSet(matches) =
              {i \in Ids :
                  /\ call.query_start <= s_start(i)
                  /\ s_end(i) <= call.query_end
                  /\ call.max_gap # None
                        => (call.query_end - call.query_start) - (s_end(i) - s_start(i))
                              <= call.max_gap
                  /\ call.min_overlap > 0 => s_end(i) - s_start(i) >= call.min_overlap}

\* max_gap set and min_overlap positive: a node the query does not enclose is
\* left out while a node of its child slice is reported
C8_Witness ==
    /\ Full("extend") /\ call.max_gap # None /\ call.min_overlap > 0
    /\ \E k \in 1..Len(subject.nodes) :
          /\ ~(call.query_start <= subject.starts[k] /\ subject.ends[k] <= call.query_end)
          /\ subject.nodes[k].id \notin ToSet(matches)
          /\ \E c \in (subject.nodes[k].children_start + 1)..subject.nodes[k].children_end :
                subject.nodes[c].id \in ToSet(matches)

(* -------------------------------- nearest ------------------------------ *)
\* subjects that overlap the query: s_start < q_end and q_start < s_end
Overlapping == {i \in Ids : s_start(i) < call.query_end /\ call.query_start < s_end(i)}

\* gap of a subject that does not overlap the query: q_start - s_end when the
\* subject lies before the query, s_start - q_end when it lies after it
FlankGap(i) ==
    IF s_end(i) <= call.query_start
    THEN call.query_start - s_end(i)
    ELSE s_start(i) - call.query_end

\* gap = max(0, s_start - q_end) + max(0, q_start - s_end)
Gap(i) == Max2(0, s_start(i) - call.query_end) + Max2(0, call.query_start - s_end(i))

\* the subjects at the minimum gap
Nearmost == {i \in Ids : \A j \in Ids : Gap(i) <= Gap(j)}

DefaultNearest ==
    Full("nearest") /\ ~call.adjacent_equals_overlap /\ Ids # {}

\* C9: nearest with default parameters on a non-empty index returns all the
\* overlapping subjects if there is one, and otherwise all the subjects whose
\* gap to the query is the minimum over all subjects.
C9_NearestDefault ==
    DefaultNearest
        => ToSet(matches) =
              IF Overlapping # {}
              THEN Overlapping
              ELSE {i \in Ids : \A j \in Ids : FlankGap(i) <= FlankGap(j)}

\* no subject overlaps; a subject before the query and a subject after it tie at
\* a positive gap, and a nested subject shares the nearest endpoint: all three
\* are reported
C9_Witness ==
    /\ DefaultNearest
    /\ Overlapping = {}
    /\ \E i \in ToSet(matches) : s_end(i) < call.query_start
    /\ \E i \in ToSet(matches) : s_start(i) > call.query_end
    /\ subject.root_children < Len(subject.nodes)
    /\ Len(matches) = 3

\* C10 as stated: nearest returns exactly the subjects that minimise
\* gap = max(0, s_start - q_end) + max(0, q_start - s_end).
C10_NearestMinGap ==
    (Full("nearest") /\ Ids # {}) => ToSet(matches) = Nearmost

\* C10 amended: nearest with quit_on_first = false returns exactly the subjects
\* at the minimum gap when adjacent_equals_overlap is set or no subject overlaps
\* the query; with adjacent_equals_overlap unset and some subject overlapping it
\* returns exactly the overlapping subjects, leaving out those that are only
\* adjacent to the query although their gap is 0 too.
C10_NearestMinGapAmended ==
    (Full("nearest") /\ Ids # {})
        => ToSet(matches) =
              IF call.adjacent_equals_overlap \/ Overlapping = {}
              THEN Nearmost
              ELSE Overlapping

\* adjacent_equals_overlap unset: an overlapping subject is reported and a
\* subject adjacent to the query, at gap 0 as well, is not
C10_Witness ==
    /\ DefaultNearest
    /\ Overlapping # {}
    /\ ToSet(matches) = Overlapping
    /\ \E i \in Ids : Gap(i) = 0 /\ i \notin ToSet(matches)

(* --------------------------- the built index --------------------------- *)
\* build() has returned and no query has run
Built == pc = "built"

\* 0-based positions in subject.nodes
NodeIx == 0..(Len(subject.nodes) - 1)

node(k) == At(subject.nodes, k)

\* the positions of the root's children, [0, root_children)
RootSlice == 0..(subject.root_children - 1)

\* the positions of node k's children, [children_start, children_end)
ChildSlice(k) == node(k).children_start..(node(k).children_end - 1)

\* the positions of node k's duplicates, [duplicates_start, duplicates_end)
DupSlice(k) == node(k).duplicates_start..(node(k).duplicates_end - 1)

\* how often id i is stored, as a node's id or in a node's duplicates slice
Occurrences(i) ==
    Cardinality({k \in NodeIx : node(k).id = i})
        + Cardinality({kd \in NodeIx \X (0..(Len(subject.duplicates) - 1)) :
                          /\ kd[2] \in DupSlice(kd[1])
                          /\ At(subject.duplicates, kd[2]) = i})

\* C11: the index returned by build (direct or from a subset array) has
\* |nodes| + |duplicates| = n and |starts| = |ends| = |nodes|, the duplicates
\* slices of distinct nodes are disjoint, and every input id is stored exactly
\* once, as a node's id or in one node's duplicates slice.
C11_CountPreserved ==
    Built
        => /\ Len(subject.nodes) + Len(subject.duplicates) = Len(of_interest)
           /\ Len(subject.starts) = Len(subject.nodes)
           /\ Len(subject.ends) = Len(subject.nodes)
           /\ \A k, l \in NodeIx : k # l => DupSlice(k) \cap DupSlice(l) = {}
           /\ \A i \in Ids : Occurrences(i) = 1

\* an index built from a subset array that leaves an interval out and is not
\* in increasing id order, with a node that has a duplicate
C11_Witness ==
    /\ Built
    /\ Len(of_interest) < Len(subject_starts)
    /\ \E k \in 1..(Len(of_interest) - 1) : of_interest[k] > of_interest[k + 1]
    /\ subject.duplicates # << >>

\* C12: root_children <= |nodes|; every node's child slice and duplicates
\* slice are ordered and lie within nodes and duplicates; a non-empty child
\* slice starts after its node; the root slice and the non-empty child slices
\* are pairwise disjoint and cover [0, |nodes|).
C12_Contiguity ==
    Built
        => /\ subject.root_children <= Len(subject.nodes)
           /\ \A k \in NodeIx :
                 /\ node(k).children_start <= node(k).children_end
                 /\ node(k).children_end <= Len(subject.nodes)
                 /\ node(k).duplicates_start <= node(k).duplicates_end
                 /\ node(k).duplicates_end <= Len(subject.duplicates)
                 /\ ChildSlice(k) # {} => node(k).children_start > k
                 /\ ChildSlice(k) \cap RootSlice = {}
           /\ \A k, l \in NodeIx : k # l => ChildSlice(k) \cap ChildSlice(l) = {}
           /\ RootSlice \cup UNION {ChildSlice(k) : k \in NodeIx} = NodeIx

\* an index of three nodes on three levels: the root's child has a child that
\* has a child
C12_Witness ==
    /\ Built
    /\ subject.root_children = 1
    /\ Len(subject.nodes) = 3
    /\ ChildSlice(0) = {1}
    /\ ChildSlice(1) = {2}

\* C13: every node B in the child slice of a node A has starts[A] <= starts[B]
\* and ends[B] <= ends[A], one of the two strictly.
C13_Containment ==
    Built
        => \A a \in NodeIx : \A b \in ChildSlice(a) :
              /\ At(subject.starts, a) <= At(subject.starts, b)
              /\ At(subject.ends, b) <= At(subject.ends, a)
              /\ \/ At(subject.starts, a) < At(subject.starts, b)
                 \/ At(subject.ends, b) < At(subject.ends, a)

\* a node with a child that shares its start and a later root node that ends
\* after it: the level of the child and of the node are both popped
C13_Witness ==
    /\ Built
    /\ subject.root_children = 2
    /\ ChildSlice(0) = {2}
    /\ At(subject.starts, 2) = At(subject.starts, 0)
    /\ At(subject.ends, 1) > At(subject.ends, 0)

\* the slices of siblings: the root slice and every node's child slice
SiblingSlices == {RootSlice} \cup {ChildSlice(k) : k \in NodeIx}

\* C14: within the root slice and within every child slice, starts is
\* non-decreasing in array order, and two entries with equal starts appear with
\* strictly decreasing ends.
C14_Ordering ==
    Built
        => \A s \in SiblingSlices : \A x, y \in s :
              x < y => /\ At(subject.starts, x) <= At(subject.starts, y)
                       /\ At(subject.starts, x) = At(subject.starts, y)
                             => At(subject.ends, x) > At(subject.ends, y)

\* an index built from an unsorted subset array in which a node has two
\* children
C14_Witness ==
    /\ Built
    /\ ~is_sorted(of_interest, Pointer(subject_starts), Pointer(subject_ends))
    /\ \E k \in NodeIx : Cardinality(ChildSlice(k)) >= 2

(* ------------------- what holds of every query kind -------------------- *)
\* the parameters of the call that has returned
CallParameters ==
    Parameters(call.max_gap, call.min_overlap, call.quit_on_first,
               call.adjacent_equals_overlap)

\* the query function of the given kind
query(kind, index, query_start, query_end, params, history, output) ==
    CASE kind = "any" ->
            overlaps_any(index, query_start, query_end, params, history, output)
      [] kind = "start" ->
            overlaps_start(index, query_start, query_end, params, history, output)
      [] kind = "end" ->
            overlaps_end(index, query_start, query_end, params, history, output)
      [] kind = "equal" ->
            overlaps_equal(index, query_start, query_end, params, history, output)
      [] kind = "within" ->
            overlaps_within(index, query_start, query_end, params, history, output)
      [] kind = "extend" ->
            overlaps_extend(index, query_start, query_end, params, history, output)
      [] kind = "nearest" ->
            nearest(index, query_start, query_end, params, history, output)

\* the indexes build() can return for the other orders of the subset array
ShuffledIndexes ==
    {build_internal(sorted, Pointer(subject_starts), Pointer(subject_ends)) :
        sorted \in UNION {sorted_of_interest(p, Pointer(subject_starts), Pointer(subject_ends)) :
                             p \in Orderings(of_interest)}}

\* the output of the returned call when it is made on index instead
SameCallOn(index) ==
    query(call.kind, index, call.query_start, call.query_end, CallParameters,
          << >>, << >>).matches

\* C15: two orders of the same subset array give indexes on which every query
\* kind with every parameter set returns the same set of ids.
C15_ShuffleInvariant ==
    pc = "done"
        => \A index \in ShuffledIndexes : ToSet(SameCallOn(index)) = ToSet(matches)

\* C15 as amended: the sets agree when quit_on_first = false; with
\* quit_on_first = true the two outputs are both empty or both hold one id.
C15_ShuffleInvariantAmended ==
    pc = "done"
        => \A index \in ShuffledIndexes :
              IF call.quit_on_first
              THEN /\ Len(SameCallOn(index)) = Len(matches)
                   /\ Len(matches) <= 1
              ELSE ToSet(SameCallOn(index)) = ToSet(matches)

\* a call that reports both subjects on an index built from a subset array in
\* decreasing id order, where the other order gives another index
C15_Witness ==
    /\ pc = "done" /\ ~call.quit_on_first
    /\ of_interest = <<1, 0>>
    /\ ToSet(matches) = {0, 1}
    /\ \E index \in ShuffledIndexes : index # subject

\* C16: the output of a query depends only on the index, the query and the
\* parameters: whatever earlier queries left in the workspace stack and in the
\* output vector, frames left by a quit_on_first return included, the call
\* returns what it returns on an empty workspace and an empty output vector.
C16_ReuseIndependent ==
    pc = "done" => matches = SameCallOn(subject)

\* a call that reports something, entered with frames on the workspace stack
\* and ids in the output vector that an earlier call had left there
C16_Witness ==
    /\ pc = "done" /\ ~call.quit_on_first
    /\ entry.history # << >>
    /\ entry.matches # << >>
    /\ matches # << >>
    /\ matches # entry.matches

\* the output of the returned call when it is made with quit_on_first = false
WithoutQuit ==
    query(call.kind, subject, call.query_start, call.query_end,
          [CallParameters EXCEPT !.quit_on_first = FALSE], << >>, << >>).matches

\* C17: with quit_on_first = true every query function returns nothing when
\* the same call with quit_on_first = false returns nothing, and otherwise
\* exactly one id, which that call returns too.
C17_QuitOnFirst ==
    (pc = "done" /\ call.quit_on_first)
        => IF WithoutQuit = << >>
           THEN matches = << >>
           ELSE Len(matches) = 1 /\ matches[1] \in ToSet(WithoutQuit)

\* a nearest call with quit_on_first = true that reports one of two subjects
\* that lie equally near the query without overlapping it
C17_Witness ==
    /\ pc = "done" /\ call.quit_on_first /\ call.kind = "nearest"
    /\ Len(matches) = 1
    /\ Overlapping = {}
    /\ Cardinality(ToSet(WithoutQuit)) = 2

(* ------------------ overlaps_within: particular queries ----------------- *)
\* C18: on a zero-width query (q_start = q_end) overlaps_within returns no
\* subject whose end equals q_end.
C18_ZeroWidthWithin ==
    (Returned("within") /\ call.query_start = call.query_end)
        => \A i \in ToSet(matches) : s_end(i) # call.query_end

\* C18 as amended: on a zero-width query, with quit_on_first = false and
\* min_overlap = 0, overlaps_within returns every subject whose end equals
\* q_end, except those wider than max_gap when max_gap is set.
C18_ZeroWidthWithinAmended ==
    (Full("within") /\ call.query_start = call.query_end /\ call.min_overlap = 0)
        => {i \in ToSet(matches) : s_end(i) = call.query_end}
              = {i \in Ids : /\ s_end(i) = call.query_end
                             /\ call.max_gap # None
                                   => s_end(i) - s_start(i) <= call.max_gap}

\* a zero-width query with max_gap set that reports a subject of positive
\* width ending at q_end and leaves out a wider subject ending there
C18_Witness ==
    /\ Full("within") /\ call.query_start = call.query_end /\ call.min_overlap = 0
    /\ call.max_gap # None
    /\ \E i \in ToSet(matches) : s_end(i) = call.query_end /\ s_start(i) < s_end(i)
    /\ \E j \in Ids \ ToSet(matches) : s_end(j) = call.query_end

\* the call of scenario S5: overlaps_within with max_gap = 2 and query [15, 20)
\* on the index built from [10, 20) and [15, 18)
CallS5 ==
    /\ Full("within")
    /\ subject_starts = <<10, 15>> /\ subject_ends = <<20, 18>>
    /\ call.query_start = 15 /\ call.query_end = 20
    /\ call.max_gap = 2 /\ call.min_overlap = 0

\* C19: the call of scenario S5 returns exactly {0}.
C19_ScenarioS5 == CallS5 => ToSet(matches) = {0}

\* C19 as amended: the call of scenario S5 returns nothing.
C19_ScenarioS5Amended == CallS5 => matches = << >>

\* the call of scenario S5 has returned on the index in which [15, 18) is the
\* child of [10, 20)
C19_Witness ==
    /\ CallS5
    /\ RootSlice = {0}
    /\ ChildSlice(0) = {1}
    /\ node(0).id = 0

(* ---------------------- queries with q_end < q_start -------------------- *)
\* the default max_gap of the parameters of the given kind
DefaultMaxGap(kind) == IF kind \in {"any", "within", "extend"} THEN None ELSE 0

\* a call of the given kind with default parameters and q_end < q_start
ReversedDefault(kind) ==
    /\ Returned(kind)
    /\ call.query_end < call.query_start
    /\ call.max_gap = DefaultMaxGap(kind)
    /\ call.min_overlap = 0
    /\ ~call.quit_on_first

\* C20: each of the six overlap queries with default parameters returns
\* nothing on a query with q_end < q_start.
C20_ReversedEmpty ==
    \A kind \in {"any", "start", "end", "equal", "within", "extend"} :
        ReversedDefault(kind) => matches = << >>

\* C20 as amended: on a query with q_end < q_start overlaps_equal and
\* overlaps_extend return nothing, and the other four queries return the
\* subjects their match condition selects, the condition being applied as it
\* stands.
C20_ReversedAmended ==
    /\ ReversedDefault("equal") => matches = << >>
    /\ ReversedDefault("extend") => matches = << >>
    /\ ReversedDefault("any")
          => ToSet(matches) =
                {i \in Ids : s_start(i) < call.query_end /\ call.query_start < s_end(i)}
    /\ ReversedDefault("start")
          => ToSet(matches) = {i \in Ids : s_start(i) = call.query_start}
    /\ ReversedDefault("end")
          => ToSet(matches) = {i \in Ids : s_end(i) = call.query_end}
    /\ ReversedDefault("within")
          => ToSet(matches) =
                {i \in Ids : s_start(i) <= call.query_start /\ call.query_end <= s_end(i)}

\* overlaps_within on a query with q_end < q_start reports one subject that
\* spans the query's bounds and leaves the other out
C20_Witness ==
    /\ ReversedDefault("within")
    /\ Len(matches) = 1
    /\ Cardinality(Ids) = 2

(* ------------------- arithmetic in the position type ------------------- *)
\* the mathematical results of the Position_ operations that the returned call
\* of overlaps_any, overlaps_start, overlaps_end or overlaps_equal performed
CallResults ==
    CASE call.kind = "any" ->
           any_results(subject, call.query_start, call.query_end, CallParameters)
      [] call.kind = "start" ->
           start_results(subject, call.query_start, call.query_end, CallParameters)
      [] call.kind = "end" ->
           end_results(subject, call.query_start, call.query_end, CallParameters)
      [] call.kind = "equal" ->
           equal_results(subject, call.query_start, call.query_end, CallParameters)
      [] OTHER -> {}

\* C21: in a bounded position type, signed or unsigned, no arithmetic operation
\* of overlaps_any, overlaps_start, overlaps_end or overlaps_equal (the effective
\* start or end, the is_finished tests, diff_above_gap) yields a value outside
\* the type's range, whatever max_gap, for every query with q_start <= q_end
C21_NoOverflow ==
    (pc = "done" /\ ValidQuery) => \A x \in CallResults : representable(x)

\* C22: with an unsigned position type (arithmetic modulo 2^w) each of the six
\* overlap queries returns, for every query with q_start <= q_end and every
\* max_gap and min_overlap, exactly the ids that its match predicate selects
\* over the unbounded integers: no subtraction wraps below zero
C22_UnsignedExact ==
    Position_.is_unsigned
        => /\ C1_AnyDefault /\ C2_AnyMaxGap /\ C3_AnyMinOverlap
           /\ C4_Start /\ C5_End /\ C6_Equal
           /\ C7_Within /\ C8_Extend

(* --------------------------- the forms of build ------------------------ *)
\* the array extracted for a subset: element j is array[subset[j]]
Extracted(array, subset) == [j \in 1..Len(subset) |-> At(array, subset[j])]

\* the array that an Incrementer over it materialises as array
Decremented(array) == [k \in 1..Len(array) |-> array[k] - 1]

\* what the returned call can put in matches when it is made on an index built
\* from ids over starts and ends, with every reported id i replaced by keep[i]
Outputs(ids, starts, ends, keep) ==
    {[k \in 1..Len(SameCallOn(build_internal(sorted, starts, ends))) |->
         At(keep, SameCallOn(build_internal(sorted, starts, ends))[k])] :
        sorted \in sorted_of_interest(ids, starts, ends)}

\* build(num_subset, subset, starts, ends), or build(num_intervals, starts, ends)
\* with subset = 0, 1, ..., as the index was built
SubsetOutputs ==
    Outputs(of_interest, Pointer(subject_starts), Pointer(subject_ends),
            iota(Len(subject_starts)))

\* build(num_subset, starts', ends') over the extracted arrays, ids mapped back
ExtractedOutputs ==
    Outputs(iota(Len(of_interest)), Pointer(Extracted(subject_starts, of_interest)),
            Pointer(Extracted(subject_ends, of_interest)), of_interest)

\* build_custom with an accessor object that materialises subject_ends
AccessorOutputs ==
    Outputs(of_interest, Pointer(subject_starts), Incrementer(Decremented(subject_ends)),
            iota(Len(subject_starts)))

\* C23: the forms of build agree. For every overlaps_any call the index built
\* from a subset array over the full arrays, the index built over the
\* extracted arrays (reported j mapped to subset[j]) and the index built by
\* build_custom from an accessor object, with and without a subset, can return
\* the same outputs, and with quit_on_first = false these all hold the same ids
C23_BuildForms ==
    Returned("any")
        => /\ matches \in SubsetOutputs
           /\ ExtractedOutputs = SubsetOutputs
           /\ AccessorOutputs = SubsetOutputs
           /\ ~call.quit_on_first
                 => \A other \in ExtractedOutputs \cup AccessorOutputs :
                       ToSet(other) = ToSet(matches)

\* a call that reports a subject of an index built from a subset array in
\* which the reported id is not its position, and leaves another subject out
C23_Witness ==
    /\ Returned("any") /\ ~call.quit_on_first
    /\ Len(of_interest) = 2
    /\ \E k \in 1..Len(matches) : \E j \in 1..Len(of_interest) :
          matches[k] = of_interest[j] /\ matches[k] # j - 1
    /\ ToSet(matches) # ToSet(of_interest)

(* ----------------------- intervals with start > end -------------------- *)
\* some interval handed to build has start > end
SomeReversed == \E i \in Ids : s_start(i) > s_end(i)

\* a frame of the workspace stack lies within nodes
FrameInNodes(f) ==
    /\ 0 <= f.child_at
    /\ f.child_at <= f.child_end
    /\ f.child_end <= Len(subject.nodes)

\* C24: when some interval has start > end, build still returns an index in
\* which every id occurs exactly once across nodes and duplicates and every
\* children and duplicates slice lies within its array, and every query on it
\* returns, having read only positions inside nodes, starts, ends and
\* duplicates: it reports ids that were handed to build and leaves on the
\* workspace stack only frames that lie within nodes. (At is undefined outside
\* its array, so build and the queries have a result only when every read is
\* inside.)
C24_Unchecked ==
    (pc # "init" /\ SomeReversed)
        => /\ \A i \in Ids : Occurrences(i) = 1
           /\ Len(subject.starts) = Len(subject.nodes)
           /\ Len(subject.ends) = Len(subject.nodes)
           /\ subject.root_children <= Len(subject.nodes)
           /\ \A k \in NodeIx :
                 /\ 0 <= node(k).children_start
                 /\ node(k).children_start <= node(k).children_end
                 /\ node(k).children_end <= Len(subject.nodes)
                 /\ 0 <= node(k).duplicates_start
                 /\ node(k).duplicates_start <= node(k).duplicates_end
                 /\ node(k).duplicates_end <= Len(subject.duplicates)
           /\ pc = "done"
                 => /\ ToSet(matches) \subseteq Ids
                    /\ \A k \in 1..Len(workspace) : FrameInNodes(workspace[k])

\* a query with quit_on_first returns a subject with start > end that is the
\* child of a subject with start < end, and leaves a frame on the stack
C24_Witness ==
    /\ pc = "done" /\ call.quit_on_first
    /\ workspace # << >>
    /\ \E k \in NodeIx : \E c \in ChildSlice(k) :
          /\ At(subject.starts, c) > At(subject.ends, c)
          /\ At(subject.starts, k) < At(subject.ends, k)
          /\ node(c).id \in ToSet(matches)

(* ------------------ nearest with adjacent_equals_overlap --------------- *)
\* the subjects adjacent to the query: s_end = q_start or s_start = q_end
Adjacent ==
    {i \in Ids : s_end(i) = call.query_start \/ s_start(i) = call.query_end}

\* what the same call returns with adjacent_equals_overlap = false
WithoutAdjacency ==
    nearest(subject, call.query_start, call.query_end,
            Parameters(call.max_gap, call.min_overlap, call.quit_on_first, FALSE),
            entry.history, entry.matches).matches

\* C25: nearest with adjacent_equals_overlap = true and quit_on_first = false,
\* on a non-empty index and a query with q_start <= q_end, returns exactly the
\* overlapping and the adjacent subjects, each id once, when there is one of
\* either sort, and otherwise what it returns with adjacent_equals_overlap =
\* false.
C25_AdjacentEqualsOverlap ==
    (Full("nearest") /\ call.adjacent_equals_overlap /\ Ids # {})
        => IF Overlapping \cup Adjacent # {}
           THEN /\ ToSet(matches) = Overlapping \cup Adjacent
                /\ Len(matches) = Cardinality(ToSet(matches))
           ELSE matches = WithoutAdjacency

\* a subject that overlaps the query is reported together with a subject that
\* ends at the query start and a nested subject that starts at the query end
C25_Witness ==
    /\ Full("nearest") /\ call.adjacent_equals_overlap
    /\ Overlapping # {}
    /\ \E i \in ToSet(matches) : s_end(i) = call.query_start /\ i \notin Overlapping
    /\ \E k \in NodeIx : \E c \in ChildSlice(k) :
          /\ node(c).id \in ToSet(matches) \ Overlapping
          /\ At(subject.starts, c) = call.query_end

(* ------------------------------ duplicates ----------------------------- *)
\* the ids stored in the duplicates slice of node k
Duplicates(k) == {At(subject.duplicates, d) : d \in DupSlice(k)}

\* subject i has the start and the end that the index stores for node k
SameBounds(i, k) ==
    s_start(i) = At(subject.starts, k) /\ s_end(i) = At(subject.ends, k)

\* C26: in the index returned by build a subject id lies in a node's duplicates
\* slice if and only if it is not the node's own id and its start and end both
\* equal that node's starts and ends entry; no two nodes have the same
\* (start, end), so subjects that share only a start or only an end are kept
\* as separate nodes.
C26_Duplicates ==
    Built
        => /\ \A k \in NodeIx : SameBounds(node(k).id, k)
           /\ \A k \in NodeIx : \A i \in Ids :
                 i \in Duplicates(k) <=> (i # node(k).id /\ SameBounds(i, k))
           /\ \A k, l \in NodeIx :
                 (k # l) => \/ At(subject.starts, k) # At(subject.starts, l)
                            \/ At(subject.ends, k) # At(subject.ends, l)

\* three subjects: two are identical and are stored as a node and its
\* duplicate; the third shares their end, starts later, and is the node's child
C26_Witness ==
    /\ Built
    /\ Len(of_interest) = 3
    /\ \E k \in NodeIx : \E c \in ChildSlice(k) :
          /\ Duplicates(k) # {}
          /\ At(subject.ends, c) = At(subject.ends, k)
          /\ At(subject.starts, c) > At(subject.starts, k)

(* --------------------------- the ends of siblings ---------------------- *)
\* C27: in an index built over intervals with start <= end, ends is strictly
\* increasing in array order within the root slice and within every node's
\* child slice: the range that the lower_bound and upper_bound searches of the
\* queries run on is sorted.
C27_EndsIncreasing ==
    Built
        => \A s \in SiblingSlices : \A x, y \in s :
              x < y => At(subject.ends, x) < At(subject.ends, y)

\* two siblings under the root, the second of which has a child that ends no
\* later than the first sibling: the child's end is out of order in ends as
\* a whole, and in order within its own slice
C27_Witness ==
    /\ Built
    /\ \E x, y \in RootSlice : \E c \in ChildSlice(y) :
          /\ x < y
          /\ At(subject.ends, c) <= At(subject.ends, x)

(* ------------------------- the order of the output --------------------- *)
\* the ids of the nodes at positions [first, last) and of everything below
\* them in depth-first pre-order, every node followed by its duplicates slice
RECURSIVE PreOrder(_, _)
PreOrder(first, last) ==
    IF first >= last
    THEN << >>
    ELSE Append(<< >>, node(first).id)
            \o Slice(subject.duplicates, node(first).duplicates_start,
                     node(first).duplicates_end)
            \o PreOrder(node(first).children_start, node(first).children_end)
            \o PreOrder(first + 1, last)

\* the place of id i in the pre-order of the whole index
PreOrderRank(i) ==
    CHOOSE r \in 1..Len(PreOrder(0, subject.root_children)) :
        PreOrder(0, subject.root_children)[r] = i

\* C28: overlaps_any with quit_on_first = false appends its matches in the
\* depth-first pre-order of the index: a node before its descendants, siblings
\* in array order, and the ids of a reported node's duplicates slice right
\* after the node's id, in the slice's order; the output is therefore ordered
\* by ascending start and, for equal starts, by descending end.
C28_OutputOrder ==
    (Returned("any") /\ ~call.quit_on_first)
        => /\ \A p, q \in 1..Len(matches) :
                 p < q => PreOrderRank(matches[p]) < PreOrderRank(matches[q])
           /\ \A p \in 1..Len(matches) : \A k \in NodeIx :
                 matches[p] = node(k).id
                    => /\ p + Cardinality(DupSlice(k)) <= Len(matches)
                       /\ SubSeq(matches, p + 1, p + Cardinality(DupSlice(k)))
                             = Slice(subject.duplicates, node(k).duplicates_start,
                                     node(k).duplicates_end)
           /\ \A p, q \in 1..Len(matches) :
                 p < q => /\ s_start(matches[p]) <= s_start(matches[q])
                          /\ s_start(matches[p]) = s_start(matches[q])
                                => s_end(matches[p]) >= s_end(matches[q])

\* the output holds a node, then its duplicate, then its child
C28_Witness ==
    /\ Returned("any") /\ ~call.quit_on_first
    /\ Len(matches) = 3
    /\ \E k \in NodeIx :
          /\ matches[1] = node(k).id
          /\ DupSlice(k) # {}
          /\ \E c \in ChildSlice(k) : matches[3] = node(c).id

(* ---------------------------- the size checks -------------------------- *)
\* C29: safe_resize throws and leaves the container's size as it was when size
\* exceeds the maximum of the container's size type, and otherwise resizes
\* the container to exactly size; check_safe_ptrdiff throws when size exceeds
\* the maximum of the iterator's difference type, otherwise it does not, and
\* it leaves the container alone.
C29_SizeChecks ==
    /\ sizes.op = "safe_resize"
          => IF sizes.size > numeric_limits_max(sizes.Csize)
             THEN sizes.thrown /\ sizes.container = sizes.before
             ELSE ~sizes.thrown /\ sizes.container = sizes.size
    /\ sizes.op = "check_safe_ptrdiff"
          => /\ sizes.thrown <=> sizes.size > numeric_limits_max(sizes.Diff)
             /\ sizes.container = sizes.before

\* safe_resize has thrown on a size of a signed type that is wider than the
\* container's unsigned size type, and the container has kept its elements
C29_Witness ==
    /\ sizes.op = "safe_resize"
    /\ sizes.thrown
    /\ sizes.Size_.is_signed /\ ~sizes.Csize.is_signed
    /\ sizes.Size_.bits > sizes.Csize.bits
    /\ sizes.before > 0

(* ------------------------- the tree-building pass ---------------------- *)
\* the sequence s in reverse
Reverse(s) == [k \in 1..Len(s) |-> s[Len(s) - k + 1]]

\* the offsets of the children that add_node gave to the node at offset j, in
\* the order of their insertion
ChildrenAdded(j) ==
    LET links == SelectSeq(pass.added, LAMBDA a : a.parent = j)
    IN [k \in 1..Len(links) |-> links[k].child]

\* a left shift is about to run
BeforeShift == pass.at \in {"popped", "remaining"}

\* C30: throughout the tree-building pass children_used <=
\* children_tmp_boundary <= n and duplicates_used <= duplicates_tmp_boundary <=
\* n hold after every step, neither boundary having gone below zero; a left
\* shift copies a run that ends within the vector to a place at or before
\* where it starts, so it overwrites no entry it has yet to copy; and when the
\* pass is over, every node's [children_start, children_end) lies in the left
\* region and holds exactly the node's children in reverse order of insertion.
C30_WorkingRegions ==
    pass.at # "idle"
        => /\ 0 <= pass.b.children_used
           /\ pass.b.children_used <= pass.b.children_tmp_boundary
           /\ pass.b.children_tmp_boundary <= Len(pass.sorted)
           /\ 0 <= pass.b.duplicates_used
           /\ pass.b.duplicates_used <= pass.b.duplicates_tmp_boundary
           /\ pass.b.duplicates_tmp_boundary <= Len(pass.sorted)
           /\ BeforeShift
                 => /\ pass.b.children_tmp_boundary + pass.b.num_children_to_copy
                          <= Len(pass.sorted)
                    /\ pass.b.duplicates_tmp_boundary + pass.b.num_duplicates_to_copy
                          <= Len(pass.sorted)
           /\ pass.at \in {"finished", "emitted"}
                 => \A j \in 0..(Len(pass.b.working_list) - 1) :
                       /\ At(pass.b.working_list, j).children_end
                             <= pass.b.children_used
                       /\ Slice(pass.b.working_children,
                                At(pass.b.working_list, j).children_start,
                                At(pass.b.working_list, j).children_end)
                             = Reverse(ChildrenAdded(j))

\* the pass is over for three intervals: a node with two children, which the
\* last left shift has moved to the left region next to the root's child
C30_Witness ==
    /\ pass.at = "finished"
    /\ Len(pass.b.working_list) = 3
    /\ Len(ChildrenAdded(0)) = 2
    /\ pass.b.children_used = 2
    /\ pass.b.children_tmp_boundary = 2

====
